---- MODULE Spec2Model ----
(***************************************************************************)
(* Model of the internship monitor of src/src/github-monitor.js and of    *)
(* its callers in src/src/index.js.                                        *)
(*                                                                         *)
(* The process is a single JavaScript event loop: a handler runs without   *)
(* interruption until it reaches an `await` on I/O or on a timer, and      *)
(* other handlers run between such a suspension and its resumption.  Each  *)
(* action below is one such uninterrupted run: from the resolution of one  *)
(* awaited operation to the next suspension (or to the handler's return).  *)
(***************************************************************************)
EXTENDS Integers, Sequences, FiniteSets, TLC

\* Listing ids that can appear in the monitored document.
Ids == {"a", "b"}

\* Longest parsed document (number of table rows that yield a listing).
MaxDocLen == 2

\* Invocations of checkForUpdates that can be in flight at once: the one of
\* monitorRepository (initial check, then the setInterval callback) and the
\* one of the /check command. Two interval callbacks, or two /check commands,
\* overlapping each other are left out.
Polls == {"sched", "check"}

\* The two Set objects one process lifetime creates: 0 is the module-level
\* `new Set()`, 1 is the Set built by loadSeenListings.
Objs == {0, 1}

VARIABLES
    doc,                \* parse result of the upstream README right now
    file,               \* data/seen-listings.json
    heap,               \* contents of the Set objects, in insertion order
    lastKnownListings,  \* which Set object the module variable refers to
    isInitialized,      \* module variable isInitialized
    mon,                \* position of monitorRepository
    poll,               \* one record per checkForUpdates invocation
    ev                  \* history: how the last step ended, when it ended a poll,
                        \* a load or the process

vars == <<doc, file, heap, lastKnownListings, isInitialized, mon, poll, ev>>

\* The stores of the database module (src/unnamed/part_001, imported as
\* ./database.js) and the calls into it that are in flight.
VARIABLES
    users,              \* data/users.json: userId -> user record
    tasks,              \* data/tasks.json: userId -> dateKey -> task list
    teams,              \* data/teams.json: teamId -> member list
    today,              \* the current UTC date, as a day number
    parsed,             \* how many task lists parseTasks has produced
    proc,               \* one record per database call in flight
    ret,                \* history: the call the last step returned from
    calls,              \* history: how many calls have begun
    hist,               \* history: the store when a run of calls began
    tally               \* history: points earned today, qualifying days in a row

\* A call of a function that reads no module state and awaits nothing that
\* another handler can change under it.
VARIABLES
    args,               \* <<>>, or the arguments of the call
    result              \* <<>>, or what the call returned

pvars == <<args, result>>

\* Application tracking (src/src/interactions.js).
VARIABLES
    applications,       \* data/applications.json: listingId -> array of user ids
    click,              \* one record per "I Applied" click being handled
    sent,               \* history: confirmations sent to the channel per (user, listing)
    replied,            \* history: the (user, listing) pairs told "recorded"
    clicks              \* history: how many clicks have begun

avars == <<applications, click, sent, replied, clicks>>

lvars == <<users, tasks, teams, today, parsed, proc, ret, calls, hist, tally, pvars, avars>>

----------------------------------------------------------------------------
\* Helpers

Range(s) == {s[i] : i \in 1..Len(s)}

SeqsUpTo(S, n) == UNION {[1..k -> S] : k \in 0..n}

Docs == SeqsUpTo(Ids, MaxDocLen)

\* Variant: an array push in place of Set.add.
SetAdd_Push(s, id) == Append(s, id)

\* Set.prototype.add on an insertion-ordered Set.
SetAdd(s, id) == IF id \in Range(s) THEN s ELSE Append(s, id)

RECURSIVE AddAll(_, _)
\* for (const listing of listings) set.add(getListingId(listing))
AddAll(s, ids) ==
    IF ids = <<>> THEN s ELSE AddAll(SetAdd(s, Head(ids)), Tail(ids))

\* new Set(array): insertion order of first occurrences.
NewSet(arr) == AddAll(<<>>, arr)

\* Array.from(set)
ArrayFrom(s) == s

\* Variant: the filter keeps the listings that are already known.
FilterNew_Inverted(cur, seen) == SelectSeq(cur, LAMBDA id : id \in Range(seen))

\* currentListings.filter(l => !lastKnownListings.has(getListingId(l)))
FilterNew(cur, seen) == SelectSeq(cur, LAMBDA id : id \notin Range(seen))

NoFile == [st |-> "absent", listings |-> <<>>]
Corrupt == [st |-> "corrupt", listings |-> <<>>]
JsonFile(arr) == [st |-> "ok", listings |-> arr]

\* Variant: the array is read from a key the file does not have.
loadSeenListings_WrongKey(f, readOk) == <<>>

\* loadSeenListings: what it returns for the given file when the read
\* itself succeeds (readOk) or raises some other I/O error.
loadSeenListings(f, readOk) ==
    IF ~readOk THEN <<>>
    ELSE IF f.st = "ok" THEN NewSet(f.listings)
    ELSE <<>>

IdlePoll == [pc |-> "idle", mode |-> "none", cur |-> <<>>, new |-> <<>>, i |-> 0,
             ref |-> 0, buf |-> <<>>, out |-> <<>>]

\* A Set object nothing refers to any more is dropped: it is reachable from
\* the module variable or from a saveSeenListings call that has not read it yet.
Collect(h, lkl, pl) ==
    [o \in Objs |->
        IF o = lkl \/ \E p \in Polls : pl[p].pc = "mkdir" /\ pl[p].ref = o
        THEN h[o] ELSE <<>>]

----------------------------------------------------------------------------
\* The database module: data

\* Discord users that talk to the bot.
LUsers == {"u1", "u2"}

\* Last day number the clock reaches.
MaxDay == 3

\* Most database calls that begin in one behaviour when calls overlap.
MaxCalls == 4

\* Most database calls that begin in one behaviour when they run one by one.
MaxSeqCalls == 6

\* Most task lists parseTasks produces in one behaviour.
MaxSets == 2

\* Longest task list parseTasks returns.
MaxTasks == 2
MaxStreak == 2

Days == 1..MaxDay

\* lastActiveDate: null, completedAt: null
NullDate == 0

\* teamId: null
Null == "null"

\* What parseTasks gives the task at an index besides its id: points
\* (clamped to 1..15) and category. Odd indexes get a task below the streak
\* threshold, even ones a task above it.
TaskShape(index) ==
    IF index % 2 = 1 THEN [points |-> 3, category |-> "misc"]
    ELSE [points |-> 12, category |-> "internship"]

\* id: `task-${Date.now()}-${index}`: n stands for the time of the parse.
TaskId(n, index) == 10 * n + index

TaskIds == {TaskId(n, i) : n \in 1..MaxSets, i \in 1..MaxTasks}

\* The n-th list parseTasks returns: a non-empty list of fresh, incomplete tasks.
ParsedLists(n) ==
    {[i \in 1..k |->
        [id |-> TaskId(n, i), points |-> TaskShape(i).points,
         category |-> TaskShape(i).category,
         completed |-> FALSE, completedAt |-> NullDate]] : k \in 1..MaxTasks}

\* defaultUser, without the fields no modelled operation reads or writes
\* (userId, username, applicationsSubmitted, interviewPrepsDone,
\* seasonsPlayed, bestRank, createdAt).
defaultUser ==
    [seasonPoints |-> 0, weeklyPoints |-> 0, todayPoints |-> 0, streakDays |-> 0,
     lastActiveDate |-> NullDate, internshipPoints |-> 0, lifetimePoints |-> 0,
     teamId |-> Null]

\* {}: a JSON object without keys.
EmptyObj == <<>>

\* tasks[userId] && tasks[userId][dateKey]
HasBucket(ts, u, d) == u \in DOMAIN ts /\ d \in DOMAIN ts[u]

\* if (!tasks[userId]) tasks[userId] = {};  tasks[userId][dateKey] = list
PutBucket(ts, u, d, list) ==
    LET old == IF u \in DOMAIN ts THEN ts[u] ELSE EmptyObj
        new == [y \in DOMAIN old \cup {d} |-> IF y = d THEN list ELSE old[y]]
    IN [x \in DOMAIN ts \cup {u} |-> IF x = u THEN new ELSE ts[x]]

\* list.find(t => t.id === taskId): the index of the first match, 0 for none.
Find(list, id) ==
    IF \E i \in 1..Len(list) : list[i].id = id
    THEN CHOOSE i \in 1..Len(list) :
            /\ list[i].id = id
            /\ \A j \in 1..(i - 1) : list[j].id # id
    ELSE 0

\* task.completed = c; task.completedAt = at, on the loaded object.
MarkTask(ts, u, d, i, c, at) ==
    PutBucket(ts, u, d, [ts[u][d] EXCEPT ![i].completed = c, ![i].completedAt = at])

\* users[userId] = rec
PutUser(us, u, rec) == [x \in DOMAIN us \cup {u} |-> IF x = u THEN rec ELSE us[x]]

\* { ...users[userId], ...updates }
Merge(user, updates) ==
    [f \in DOMAIN user \cup DOMAIN updates |->
        IF f \in DOMAIN updates THEN updates[f] ELSE user[f]]

\* Variant: no floor.
Max0_NoFloor(n) == n

\* Math.max(0, n)
Max0(n) == IF n < 0 THEN 0 ELSE n

\* Variant: weeklyPoints is not among the updates.
completeUpdates_NoWeekly(user, task) ==
    [todayPoints |-> user.todayPoints + task.points,
     seasonPoints |-> user.seasonPoints + task.points,
     lifetimePoints |-> user.lifetimePoints + task.points,
     internshipPoints |-> IF task.category = "internship"
                          THEN user.internshipPoints + task.points
                          ELSE user.internshipPoints]

\* The updates completeTask passes to updateUser (points = task.points || 0).
completeUpdates(user, task) ==
    [todayPoints |-> user.todayPoints + task.points,
     seasonPoints |-> user.seasonPoints + task.points,
     weeklyPoints |-> user.weeklyPoints + task.points,
     lifetimePoints |-> user.lifetimePoints + task.points,
     internshipPoints |-> IF task.category = "internship"
                          THEN user.internshipPoints + task.points
                          ELSE user.internshipPoints]

\* Variant: weeklyPoints is left as it is.
uncompleteUpdates_KeepsWeekly(user, task) ==
    [todayPoints |-> Max0(user.todayPoints - task.points),
     seasonPoints |-> Max0(user.seasonPoints - task.points),
     lifetimePoints |-> Max0(user.lifetimePoints - task.points),
     internshipPoints |-> IF task.category = "internship"
                          THEN Max0(user.internshipPoints - task.points)
                          ELSE user.internshipPoints]

\* Variant: todayPoints is left as it is.
uncompleteUpdates_KeepsToday(user, task) ==
    [todayPoints |-> user.todayPoints,
     seasonPoints |-> Max0(user.seasonPoints - task.points),
     weeklyPoints |-> Max0(user.weeklyPoints - task.points),
     lifetimePoints |-> Max0(user.lifetimePoints - task.points),
     internshipPoints |-> IF task.category = "internship"
                          THEN Max0(user.internshipPoints - task.points)
                          ELSE user.internshipPoints]

\* The updates uncompleteTask passes to updateUser.
uncompleteUpdates(user, task) ==
    [todayPoints |-> Max0(user.todayPoints - task.points),
     seasonPoints |-> Max0(user.seasonPoints - task.points),
     weeklyPoints |-> Max0(user.weeklyPoints - task.points),
     lifetimePoints |-> Max0(user.lifetimePoints - task.points),
     internshipPoints |-> IF task.category = "internship"
                          THEN Max0(user.internshipPoints - task.points)
                          ELSE user.internshipPoints]

STREAK_THRESHOLD == 10

MsPerDay == 1000 * 60 * 60 * 24

\* new Date('YYYY-MM-DD').getTime(): UTC midnight of that day.
DateMs(day) == day * MsPerDay

\* Math.floor((todayDate - lastDate) / (1000 * 60 * 60 * 24))
daysDiff(last, day) == (DateMs(day) - DateMs(last)) \div MsPerDay

\* Variant: a consecutive day starts the streak over at 1.
updateStreak_StartsOver(user, day, pointsEarned) ==
    IF pointsEarned >= STREAK_THRESHOLD
    THEN IF user.lastActiveDate = day THEN EmptyObj
         ELSE IF user.lastActiveDate # NullDate
         THEN IF daysDiff(user.lastActiveDate, day) >= 1
              THEN [streakDays |-> 1, lastActiveDate |-> day]
              ELSE EmptyObj
         ELSE [streakDays |-> 1, lastActiveDate |-> day]
    ELSE EmptyObj

\* updateStreak after its getUser: the updates it passes to updateUser, or
\* no updates when it returns without calling updateUser.
updateStreak(user, day, pointsEarned) ==
    IF pointsEarned >= STREAK_THRESHOLD
    THEN IF user.lastActiveDate = day THEN EmptyObj
         ELSE IF user.lastActiveDate # NullDate
         THEN IF daysDiff(user.lastActiveDate, day) = 1
              THEN [streakDays |-> user.streakDays + 1, lastActiveDate |-> day]
              ELSE IF daysDiff(user.lastActiveDate, day) > 1
              THEN [streakDays |-> 1, lastActiveDate |-> day]
              ELSE EmptyObj
         ELSE [streakDays |-> 1, lastActiveDate |-> day]
    ELSE EmptyObj

\* resetWeeklyPoints on the loaded object.
resetWeekly(us) == [x \in DOMAIN us |-> [us[x] EXCEPT !.weeklyPoints = 0]]

\* A slot no call occupies.
\* user: the object getUser returned to the call; pts: the pointsEarned
\* argument of updateStreak.
IdleProc == [pc |-> "idle", op |-> "none", u |-> "", d |-> NullDate, t |-> 0,
             list |-> <<>>, task |-> <<>>, user |-> <<>>, upd |-> EmptyObj,
             tbuf |-> EmptyObj, ubuf |-> EmptyObj, all |-> EmptyObj, todo |-> {},
             phase |-> "", pts |-> 0]

\* Calls that can be in flight at once: two commands, or a command and a
\* timer callback (the timers run in slot "y").
Procs == {"x", "y"}

\* No call has returned in the last step.
NoCall == [op |-> "none", u |-> "", d |-> NullDate, t |-> 0, null |-> FALSE,
           task |-> <<>>]

NoHist == [users |-> EmptyObj, tasks |-> EmptyObj, ops |-> <<>>]

\* Nobody has earned anything and no day has ended.
NoTally == [earned |-> [u \in LUsers |-> 0], run |-> [u \in LUsers |-> 0],
            missed |-> FALSE]

\* No function call is being looked at.
PureOff == args = <<>> /\ result = <<>>

\* Listings whose notification carries an "I Applied" button.
Listings == {"a", "b"}

\* Button clicks that can be in the handler at once.
Clicks == {"k1", "k2"}

IdleClick == [pc |-> "idle", u |-> "", l |-> "", buf |-> EmptyObj]

\* Nobody has clicked "I Applied": there is no applications.json.
ApplicationsOff ==
    /\ applications = EmptyObj
    /\ click = [k \in Clicks |-> IdleClick]
    /\ sent = [u \in LUsers, l \in Listings |-> 0]
    /\ replied = {}
    /\ clicks = 0

\* The database before anybody has used the bot.
DatabaseOff ==
    /\ users = EmptyObj
    /\ tasks = EmptyObj
    /\ teams = EmptyObj
    /\ today = 1
    /\ parsed = 0
    /\ proc = [p \in Procs |-> IdleProc]
    /\ ret = NoCall
    /\ calls = 0
    /\ hist = NoHist
    /\ tally = NoTally
    /\ ApplicationsOff

LedgerOff == DatabaseOff /\ PureOff

----------------------------------------------------------------------------
Init ==
    /\ LedgerOff
    /\ doc \in Docs
    /\ file = NoFile
    /\ heap = [o \in Objs |-> <<>>]
    /\ lastKnownListings = 0
    /\ isInitialized = FALSE
    /\ mon = "off"
    /\ poll = [p \in Polls |-> IdlePoll]
    /\ ev = "step"

\* The upstream document changes.
DocChange ==
    /\ \E d \in Docs : d # doc /\ doc' = d
    /\ ev' = "step"
    /\ UNCHANGED <<file, heap, lastKnownListings, isInitialized, mon, poll>>

\* A fresh call of checkForUpdates: runs to `await fetch(url)`.
StartedPoll == [IdlePoll EXCEPT !.pc = "fetch"]

\* What the caller of checkForUpdates does when the call returns: after the
\* initial check monitorRepository sets up the interval.
MonAfter(p) == IF p = "sched" /\ mon = "initial" THEN "polling" ELSE mon

\* client.once('ready'): monitorRepository runs to `await loadSeenListings()`.
MonitorStart ==
    /\ mon = "off"
    /\ mon' = "loading"
    /\ ev' = "step"
    /\ UNCHANGED <<doc, file, heap, lastKnownListings, isInitialized, poll>>

\* loadSeenListings resolves; the module variable is rebound to the new Set
\* and the initial checkForUpdates is called.
MonitorLoaded(readOk) ==
    /\ mon = "loading"
    /\ lastKnownListings' = 1
    /\ poll' = [poll EXCEPT !["sched"] = StartedPoll]
    /\ heap' = Collect([heap EXCEPT ![1] = loadSeenListings(file, readOk)],
                       lastKnownListings', poll')
    /\ mon' = "initial"
    /\ ev' = IF readOk THEN "step" ELSE "readError"
    /\ UNCHANGED <<doc, file, isInitialized>>

\* setInterval callback fires.
IntervalTick ==
    /\ mon = "polling"
    /\ poll["sched"].pc = "idle"
    /\ poll' = [poll EXCEPT !["sched"] = StartedPoll]
    /\ ev' = "step"
    /\ UNCHANGED <<doc, file, heap, lastKnownListings, isInitialized, mon>>

\* /check slash command.
ManualCheck ==
    /\ poll["check"].pc = "idle"
    /\ poll' = [poll EXCEPT !["check"] = StartedPoll]
    /\ ev' = "step"
    /\ UNCHANGED <<doc, file, heap, lastKnownListings, isInitialized, mon>>

\* checkForUpdates returns.
Return(p, e) ==
    /\ poll' = [poll EXCEPT ![p] = IdlePoll]
    /\ mon' = MonAfter(p)
    /\ ev' = e

\* Variant: saveSeenListings is called without the ids having been added.
MarkSeen_NoAdd(p, ids, mode, out) ==
    /\ poll' = [poll EXCEPT ![p] = [IdlePoll EXCEPT !.pc = "mkdir", !.mode = mode,
                                                     !.ref = lastKnownListings,
                                                     !.out = out,
                                                     !.cur = IF mode = "init" THEN ids ELSE <<>>]]
    /\ ev' = "step"
    /\ UNCHANGED <<heap, mon>>

\* The ids are added to the seen set and saveSeenListings is called, which
\* runs to `await fs.mkdir`.
MarkSeen(p, ids, mode, out) ==
    /\ heap' = [heap EXCEPT ![lastKnownListings] = AddAll(@, ids)]
    /\ poll' = [poll EXCEPT ![p] = [IdlePoll EXCEPT !.pc = "mkdir", !.mode = mode,
                                                     !.ref = lastKnownListings,
                                                     !.out = out,
                                                     !.cur = IF mode = "init" THEN ids ELSE <<>>]]
    /\ ev' = "step"
    /\ UNCHANGED mon

\* Variant: the catch block starts over from an empty seen set.
FetchFailed_Clears(p) ==
    /\ Return(p, "fetchFailed")
    /\ heap' = [heap EXCEPT ![lastKnownListings] = <<>>]

\* The catch block of checkForUpdates after fetchReadme has thrown: the
\* error is logged and the call returns.
FetchFailed(p) ==
    /\ Return(p, "fetchFailed")
    /\ UNCHANGED heap

\* fetchReadme resolves or rejects.
FetchDone(p, ok) ==
    /\ poll[p].pc = "fetch"
    /\ IF ~ok
       THEN FetchFailed(p)
       ELSE IF ~isInitialized
       THEN MarkSeen(p, doc, "init", <<>>)
       ELSE LET new == FilterNew(doc, heap[lastKnownListings]) IN
            IF new = <<>>
            THEN /\ Return(p, "nothingNew")
                 /\ UNCHANGED heap
            ELSE /\ poll' = [poll EXCEPT ![p].pc = "chanFetch", ![p].new = new]
                 /\ ev' = "step"
                 /\ UNCHANGED <<heap, mon>>
    /\ UNCHANGED <<doc, file, lastKnownListings, isInitialized>>

\* client.channels.fetch resolves with a channel, resolves with nothing, or
\* rejects.
ChannelFetched(p, r) ==
    /\ poll[p].pc = "chanFetch"
    /\ CASE r = "ok" ->
              /\ poll' = [poll EXCEPT ![p].pc = "send", ![p].i = 1]
              /\ ev' = "step"
              /\ UNCHANGED <<heap, mon>>
         [] r = "none" ->
              MarkSeen(p, poll[p].new, "steady", poll[p].out)
         [] r = "throw" ->
              /\ Return(p, "channelFailed")
              /\ UNCHANGED heap
    /\ UNCHANGED <<doc, file, lastKnownListings, isInitialized>>

\* channel.send for listing i resolves (followed by the one second delay) or
\* rejects; the loop goes on to the next listing, or sendNewListings returns.
SendDone(p, ok) ==
    /\ poll[p].pc = "send"
    /\ LET out == IF ok THEN Append(poll[p].out, poll[p].new[poll[p].i])
                  ELSE poll[p].out
       IN IF poll[p].i < Len(poll[p].new)
          THEN /\ poll' = [poll EXCEPT ![p].i = @ + 1, ![p].out = out]
               /\ ev' = "step"
               /\ UNCHANGED <<heap, mon>>
          ELSE MarkSeen(p, poll[p].new, "steady", out)
    /\ UNCHANGED <<doc, file, lastKnownListings, isInitialized>>

\* Variant: saveSeenListings rethrows, so that a failed save skips the rest
\* of checkForUpdates.
Saved_Rethrows(p, f, e) ==
    /\ file' = f
    /\ isInitialized' = IF poll[p].mode = "init" /\ e = "saved" THEN TRUE ELSE isInitialized
    /\ Return(p, e)

\* saveSeenListings has returned to checkForUpdates, which returns.
Saved(p, f, e) ==
    /\ file' = f
    /\ isInitialized' = IF poll[p].mode = "init" THEN TRUE ELSE isInitialized
    /\ Return(p, e)

\* fs.mkdir resolves: writeFile is called with the Set's contents of this
\* moment. Or it rejects: the error is logged and saveSeenListings returns.
SaveMkdir(p, ok) ==
    /\ poll[p].pc = "mkdir"
    /\ IF ok
       THEN /\ poll' = [poll EXCEPT ![p].pc = "write", ![p].ref = 0,
                                    ![p].buf = ArrayFrom(heap[poll[p].ref])]
            /\ ev' = "step"
            /\ UNCHANGED <<file, isInitialized, mon>>
       ELSE Saved(p, file, "saveFailed")
    /\ heap' = Collect(heap, lastKnownListings, poll')
    /\ UNCHANGED <<doc, lastKnownListings>>

\* fs.writeFile resolves, or rejects leaving the file as it was or cut short.
SaveWrite(p, r) ==
    /\ poll[p].pc = "write"
    /\ Saved(p, CASE r = "ok" -> JsonFile(poll[p].buf)
                  [] r = "fail" -> file
                  [] r = "partial" -> Corrupt,
             IF r = "ok" THEN "saved" ELSE "saveFailed")
    /\ UNCHANGED <<doc, heap, lastKnownListings>>

\* The process exits and is started again: memory is lost, the file stays.
Restart ==
    /\ mon # "off" \/ \E p \in Polls : poll[p].pc # "idle"
    /\ heap' = [o \in Objs |-> <<>>]
    /\ lastKnownListings' = 0
    /\ isInitialized' = FALSE
    /\ mon' = "off"
    /\ poll' = [p \in Polls |-> IdlePoll]
    /\ ev' = "restart"
    /\ UNCHANGED <<doc, file>>

Next ==
    \/ DocChange /\ UNCHANGED lvars
    \/ MonitorStart /\ UNCHANGED lvars
    \/ \E ok \in BOOLEAN : MonitorLoaded(ok) /\ UNCHANGED lvars
    \/ IntervalTick /\ UNCHANGED lvars
    \/ ManualCheck /\ UNCHANGED lvars
    \/ \E p \in Polls, ok \in BOOLEAN : FetchDone(p, ok) /\ UNCHANGED lvars
    \/ \E p \in Polls, r \in {"ok", "none", "throw"} : ChannelFetched(p, r) /\ UNCHANGED lvars
    \/ \E p \in Polls, ok \in BOOLEAN : SendDone(p, ok) /\ UNCHANGED lvars
    \/ \E p \in Polls, ok \in BOOLEAN : SaveMkdir(p, ok) /\ UNCHANGED lvars
    \/ \E p \in Polls, r \in {"ok", "fail", "partial"} : SaveWrite(p, r) /\ UNCHANGED lvars
    \/ Restart /\ UNCHANGED lvars

Spec == Init /\ [][Next]_vars

----------------------------------------------------------------------------
\* The database module: calls
\*
\* A call suspends at every read and write of a store (await fs.readFile,
\* await fs.writeFile); an action is the run from one of these to the next.
\* A read or a write itself takes effect in one step and does not fail.

\* Call p goes on as record pr.
Goes(p, pr) ==
    /\ proc' = [proc EXCEPT ![p] = pr]
    /\ ret' = NoCall

\* Call p returns: null, or the task object, or a value nothing reads.
Returns(p, null, task) ==
    /\ proc' = [proc EXCEPT ![p] = IdleProc]
    /\ ret' = [op |-> proc[p].op, u |-> proc[p].u, d |-> proc[p].d, t |-> proc[p].t,
               null |-> null, task |-> task]

Begin(p, pr) ==
    /\ proc[p].pc = "idle"
    /\ Goes(p, pr)

\* handleTasksSetCommand: parseTasks has returned `list`; setUserTasks(userId, today, list).
StartSetUserTasks(p, u, list) ==
    /\ parsed < MaxSets
    /\ list \in ParsedLists(parsed + 1)
    /\ parsed' = parsed + 1
    /\ Begin(p, [IdleProc EXCEPT !.pc = "loadTasks", !.op = "setUserTasks",
                                 !.u = u, !.d = today, !.list = list])
    /\ UNCHANGED <<users, tasks, teams, today>>

\* completeTask(userId, today, taskId) or uncompleteTask(userId, today, taskId).
StartToggle(p, op, u, t) ==
    /\ Begin(p, [IdleProc EXCEPT !.pc = "loadTasks", !.op = op, !.u = u, !.d = today,
                                 !.t = t])
    /\ UNCHANGED <<users, tasks, teams, today, parsed>>

\* getUser(userId) from a command handler.
StartGetUser(p, u) ==
    /\ Begin(p, [IdleProc EXCEPT !.pc = "getUser", !.op = "getUser", !.u = u])
    /\ UNCHANGED <<users, tasks, teams, today, parsed>>

\* updateStreak(userId, pointsEarned)
StartUpdateStreak(p, u, pointsEarned) ==
    /\ Begin(p, [IdleProc EXCEPT !.pc = "getUser", !.op = "updateStreak", !.u = u,
                                 !.pts = pointsEarned])
    /\ UNCHANGED <<users, tasks, teams, today, parsed>>

\* The weekly timer fires: resetWeeklyPoints().
WeeklyTimer ==
    /\ Begin("y", [IdleProc EXCEPT !.pc = "resetLoad", !.op = "resetWeeklyPoints"])
    /\ UNCHANGED <<users, tasks, teams, today, parsed>>

\* Midnight UTC: the date changes and the daily timer fires runDailyRecap,
\* which gives up before touching the users when the channel cannot be
\* fetched or the recap message cannot be sent (ok = FALSE).
Midnight(ok) ==
    /\ today < MaxDay
    /\ today' = today + 1
    /\ Begin("y", IF ok
                  THEN [IdleProc EXCEPT !.pc = "recapLoad", !.op = "runDailyRecap"]
                  ELSE IdleProc)
    /\ UNCHANGED <<users, tasks, teams, parsed>>

\* setUserTasks after loadTasks returned ts.
setUserTasksLoaded(p, ts) ==
    Goes(p, [proc[p] EXCEPT !.pc = "saveTasks", !.list = <<>>,
                            !.tbuf = PutBucket(ts, proc[p].u, proc[p].d, proc[p].list)])

\* Variant: without the `if (task.completed) return task`.
completeTaskLoaded_NoGuard(p, ts) ==
    LET u == proc[p].u
        d == proc[p].d
        i == IF HasBucket(ts, u, d) THEN Find(ts[u][d], proc[p].t) ELSE 0
    IN IF i = 0 THEN Returns(p, TRUE, <<>>)
       ELSE LET marked == MarkTask(ts, u, d, i, TRUE, today)
            IN Goes(p, [proc[p] EXCEPT !.pc = "saveTasks", !.tbuf = marked,
                                       !.task = <<marked[u][d][i]>>])

\* completeTask after loadTasks returned ts.
completeTaskLoaded(p, ts) ==
    LET u == proc[p].u
        d == proc[p].d
        i == IF HasBucket(ts, u, d) THEN Find(ts[u][d], proc[p].t) ELSE 0
    IN IF i = 0 THEN Returns(p, TRUE, <<>>)
       ELSE IF ts[u][d][i].completed THEN Returns(p, FALSE, <<ts[u][d][i]>>)
       ELSE LET marked == MarkTask(ts, u, d, i, TRUE, today)
            IN Goes(p, [proc[p] EXCEPT !.pc = "saveTasks", !.tbuf = marked,
                                       !.task = <<marked[u][d][i]>>])

\* Variant: without the `!task.completed` in `if (!task || !task.completed)`.
uncompleteTaskLoaded_NoGuard(p, ts) ==
    LET u == proc[p].u
        d == proc[p].d
        i == IF HasBucket(ts, u, d) THEN Find(ts[u][d], proc[p].t) ELSE 0
    IN IF i = 0 THEN Returns(p, TRUE, <<>>)
       ELSE LET marked == MarkTask(ts, u, d, i, FALSE, NullDate)
            IN Goes(p, [proc[p] EXCEPT !.pc = "saveTasks", !.tbuf = marked,
                                       !.task = <<marked[u][d][i]>>])

\* uncompleteTask after loadTasks returned ts.
uncompleteTaskLoaded(p, ts) ==
    LET u == proc[p].u
        d == proc[p].d
        i == IF HasBucket(ts, u, d) THEN Find(ts[u][d], proc[p].t) ELSE 0
    IN IF i = 0 THEN Returns(p, TRUE, <<>>)
       ELSE IF ~ts[u][d][i].completed THEN Returns(p, TRUE, <<>>)
       ELSE LET marked == MarkTask(ts, u, d, i, FALSE, NullDate)
            IN Goes(p, [proc[p] EXCEPT !.pc = "saveTasks", !.tbuf = marked,
                                       !.task = <<marked[u][d][i]>>])

\* await loadTasks() resolves, and the call runs on to its saveTasks or returns.
LoadTasks(p) ==
    /\ proc[p].pc = "loadTasks"
    /\ CASE proc[p].op = "setUserTasks" -> setUserTasksLoaded(p, tasks)
         [] proc[p].op = "completeTask" -> completeTaskLoaded(p, tasks)
         [] proc[p].op = "uncompleteTask" -> uncompleteTaskLoaded(p, tasks)
    /\ UNCHANGED <<users, tasks, teams, today, parsed>>

\* await saveTasks(tasks) writes the object the call holds.
SaveTasks(p) ==
    /\ proc[p].pc = "saveTasks"
    /\ tasks' = proc[p].tbuf
    /\ IF proc[p].op = "setUserTasks"
       THEN Returns(p, FALSE, <<>>)
       ELSE Goes(p, [proc[p] EXCEPT !.pc = "getUser", !.tbuf = EmptyObj])
    /\ UNCHANGED <<users, teams, today, parsed>>

\* runDailyRecap: "Reset today's points for next day": updateUser(userId, { todayPoints: 0 }).
RecapReset(p, pr) ==
    Goes(p, [pr EXCEPT !.pc = "updLoad", !.upd = [todayPoints |-> 0],
                       !.phase = "reset", !.ubuf = EmptyObj])

\* runDailyRecap: the loop over the users it loaded takes its next user, in
\* the key order of the loaded object, which is any order here.
RecapNext(p, pr) ==
    IF pr.todo = {} THEN Returns(p, FALSE, <<>>)
    ELSE \E u \in pr.todo :
        LET user == pr.all[u]
            nx == [pr EXCEPT !.u = u, !.todo = pr.todo \ {u}, !.ubuf = EmptyObj,
                             !.all = [x \in pr.todo |-> pr.all[x]]]
        IN IF /\ user.todayPoints = 0
              /\ user.lastActiveDate # NullDate
              /\ user.lastActiveDate # today
           THEN IF daysDiff(user.lastActiveDate, today) > 1
                THEN Goes(p, [nx EXCEPT !.pc = "updLoad", !.upd = [streakDays |-> 0],
                                        !.phase = "streak"])
                ELSE RecapReset(p, nx)
           ELSE IF user.todayPoints > 0
           THEN Goes(p, [nx EXCEPT !.pc = "getUser", !.phase = "streak",
                                   !.pts = user.todayPoints])
           ELSE RecapReset(p, nx)

\* getUser has its user object: what the caller does with it.
GotUser(p, user) ==
    LET pr == [proc[p] EXCEPT !.ubuf = EmptyObj]
    IN CASE proc[p].pc \in {"updGetUser", "updGetUserSave"} ->
               Goes(p, [pr EXCEPT !.pc = "updLoad"])
         [] OTHER ->
            CASE pr.op = "getUser" -> Returns(p, FALSE, <<>>)
              [] pr.op = "completeTask" ->
                    Goes(p, [pr EXCEPT !.pc = "updLoad", !.user = <<user>>,
                                       !.upd = completeUpdates(user, pr.task[1])])
              [] pr.op = "uncompleteTask" ->
                    Goes(p, [pr EXCEPT !.pc = "updLoad", !.user = <<user>>,
                                       !.upd = uncompleteUpdates(user, pr.task[1])])
              [] pr.op = "runDailyRecap" ->
                    LET upd == updateStreak(user, today, pr.pts)
                    IN IF upd = EmptyObj THEN RecapReset(p, pr)
                       ELSE Goes(p, [pr EXCEPT !.pc = "updLoad", !.upd = upd])
              [] pr.op = "updateStreak" ->
                    LET upd == updateStreak(user, today, pr.pts)
                    IN IF upd = EmptyObj THEN Returns(p, FALSE, <<>>)
                       ELSE Goes(p, [pr EXCEPT !.pc = "updLoad", !.upd = upd])

\* getUser: await loadUsers() resolves; an unknown user is created and saved.
GetUserLoad(p) ==
    /\ proc[p].pc \in {"getUser", "updGetUser"}
    /\ IF proc[p].u \notin DOMAIN users
       THEN Goes(p, [proc[p] EXCEPT
                !.pc = IF proc[p].pc = "getUser" THEN "getUserSave" ELSE "updGetUserSave",
                !.ubuf = PutUser(users, proc[p].u, defaultUser)])
       ELSE GotUser(p, users[proc[p].u])
    /\ UNCHANGED <<users, tasks, teams, today, parsed>>

\* getUser: await saveUsers(users) writes the object with the new user.
GetUserSave(p) ==
    /\ proc[p].pc \in {"getUserSave", "updGetUserSave"}
    /\ users' = proc[p].ubuf
    /\ GotUser(p, proc[p].ubuf[proc[p].u])
    /\ UNCHANGED <<tasks, teams, today, parsed>>

\* updateUser: await loadUsers() resolves; a user the file does not have is
\* created by getUser first and updateUser starts over.
UpdLoad(p) ==
    /\ proc[p].pc = "updLoad"
    /\ IF proc[p].u \notin DOMAIN users
       THEN Goes(p, [proc[p] EXCEPT !.pc = "updGetUser"])
       ELSE Goes(p, [proc[p] EXCEPT !.pc = "updSave", !.upd = EmptyObj,
                       !.ubuf = PutUser(users, proc[p].u,
                                        Merge(users[proc[p].u], proc[p].upd))])
    /\ UNCHANGED <<users, tasks, teams, today, parsed>>

\* updateUser: await saveUsers(users) writes the merged object, and the caller goes on.
UpdSave(p) ==
    /\ proc[p].pc = "updSave"
    /\ users' = proc[p].ubuf
    /\ LET pr == [proc[p] EXCEPT !.ubuf = EmptyObj]
       IN CASE pr.op \in {"completeTask", "uncompleteTask"} -> Returns(p, FALSE, pr.task)
            [] pr.op = "updateStreak" -> Returns(p, FALSE, <<>>)
            [] pr.op = "runDailyRecap" /\ pr.phase = "streak" -> RecapReset(p, pr)
            [] pr.op = "runDailyRecap" /\ pr.phase = "reset" -> RecapNext(p, pr)
    /\ UNCHANGED <<tasks, teams, today, parsed>>

\* runDailyRecap: await getAllUsers() resolves.
RecapLoad(p) ==
    /\ proc[p].pc = "recapLoad"
    /\ RecapNext(p, [proc[p] EXCEPT
            !.all = [x \in DOMAIN users |->
                        [todayPoints |-> users[x].todayPoints,
                         lastActiveDate |-> users[x].lastActiveDate]],
            !.todo = DOMAIN users])
    /\ UNCHANGED <<users, tasks, teams, today, parsed>>

\* resetWeeklyPoints: await loadUsers() resolves.
ResetLoad(p) ==
    /\ proc[p].pc = "resetLoad"
    /\ Goes(p, [proc[p] EXCEPT !.pc = "resetSave", !.ubuf = resetWeekly(users)])
    /\ UNCHANGED <<users, tasks, teams, today, parsed>>

\* resetWeeklyPoints: await saveUsers(users) writes the object it loaded.
ResetSave(p) ==
    /\ proc[p].pc = "resetSave"
    /\ users' = proc[p].ubuf
    /\ Returns(p, FALSE, <<>>)
    /\ UNCHANGED <<tasks, teams, today, parsed>>

----------------------------------------------------------------------------
\* The database module: specifications

\* The monitor has not been started.
MonitorOff ==
    /\ doc = <<>>
    /\ file = NoFile
    /\ heap = [o \in Objs |-> <<>>]
    /\ lastKnownListings = 0
    /\ isInitialized = FALSE
    /\ mon = "off"
    /\ poll = [p \in Polls |-> IdlePoll]
    /\ ev = "step"

AllIdle == \A p \in Procs : proc[p].pc = "idle"

Toggles == {"completeTask", "uncompleteTask"}

\* What a call was asked to do.
Desc(pr) == [op |-> pr.op, u |-> pr.u, d |-> pr.d, t |-> pr.t]

\* The step begins a call in slot p.
Began(p) == proc[p].pc = "idle" /\ proc'[p].pc # "idle"

\* hist over calls that overlap: the store when a toggle began with nothing
\* else in flight, and the toggles of the same user that began before all
\* calls had returned. Anything else beginning in between ends the record.
HistOverlap ==
    IF \E p \in Procs : Began(p)
    THEN LET o == Desc(proc'[CHOOSE p \in Procs : Began(p)])
         IN IF o.op \notin Toggles THEN NoHist
            ELSE IF AllIdle THEN [users |-> users, tasks |-> tasks, ops |-> <<o>>]
            ELSE IF hist # NoHist /\ Len(hist.ops) = 1 /\ o.u = hist.ops[1].u
                                  /\ o.d = hist.ops[1].d
            THEN [hist EXCEPT !.ops = Append(@, o)]
            ELSE NoHist
    ELSE IF today' # today \/ \A p \in Procs : proc'[p].pc = "idle" THEN NoHist
    ELSE hist

\* hist over calls that run one by one: the store when the first of a row of
\* toggles of one task began, and the toggles of the row. A call of another
\* kind, or for another task, or a change of date, ends the row.
HistRow ==
    IF \E p \in Procs : Began(p)
    THEN LET o == Desc(proc'[CHOOSE p \in Procs : Began(p)])
         IN IF o.op \notin Toggles THEN NoHist
            ELSE IF hist # NoHist /\ o.u = hist.ops[1].u /\ o.d = hist.ops[1].d
                                  /\ o.t = hist.ops[1].t
            THEN [hist EXCEPT !.ops = Append(@, o)]
            ELSE [users |-> users, tasks |-> tasks, ops |-> <<o>>]
    ELSE IF today' # today THEN NoHist
    ELSE hist

lifetimeOf(us, u) == IF u \in DOMAIN us THEN us[u].lifetimePoints ELSE 0

\* tally: a completion adds its points to what the user has earned today and
\* an uncompletion takes them back; at midnight the day counts for the run
\* of qualifying days when the user earned the threshold, and ends the run
\* otherwise. missed: some midnight passed without the recap touching the users.
TallyStep ==
    IF today' # today
    THEN [earned |-> [u \in LUsers |-> 0],
          run |-> [u \in LUsers |->
                    IF tally.earned[u] >= STREAK_THRESHOLD THEN tally.run[u] + 1 ELSE 0],
          missed |-> tally.missed \/ proc'["y"].pc = "idle"]
    ELSE [tally EXCEPT !.earned =
            [u \in LUsers |-> @[u] + lifetimeOf(users', u) - lifetimeOf(users, u)]]

\* Calls overlap: at most MaxCalls begin.
Overlapping ==
    /\ calls' = IF \E p \in Procs : Began(p) \/ today' # today THEN calls + 1 ELSE calls
    /\ calls' <= MaxCalls
    /\ hist' = HistOverlap
    /\ UNCHANGED <<tally, vars, pvars, avars>>

LedgerInit == MonitorOff /\ LedgerOff

LedgerNext ==
    \/ \E p \in Procs, u \in LUsers, l \in ParsedLists(parsed + 1) :
            StartSetUserTasks(p, u, l) /\ Overlapping
    \/ \E p \in Procs, op \in Toggles, u \in LUsers, t \in TaskIds :
            StartToggle(p, op, u, t) /\ Overlapping
    \/ \E p \in Procs, u \in LUsers : StartGetUser(p, u) /\ Overlapping
    \/ WeeklyTimer /\ Overlapping
    \/ \E ok \in BOOLEAN : Midnight(ok) /\ Overlapping
    \/ \E p \in Procs : LoadTasks(p) /\ Overlapping
    \/ \E p \in Procs : SaveTasks(p) /\ Overlapping
    \/ \E p \in Procs : GetUserLoad(p) /\ Overlapping
    \/ \E p \in Procs : GetUserSave(p) /\ Overlapping
    \/ \E p \in Procs : UpdLoad(p) /\ Overlapping
    \/ \E p \in Procs : UpdSave(p) /\ Overlapping
    \/ \E p \in Procs : RecapLoad(p) /\ Overlapping
    \/ \E p \in Procs : ResetLoad(p) /\ Overlapping
    \/ \E p \in Procs : ResetSave(p) /\ Overlapping

\* Commands and timer callbacks interleave at their awaits.
LedgerSpec == LedgerInit /\ [][LedgerNext]_lvars

\* Calls run one by one: a call begins when none is in flight, commands in
\* slot "x"; at most MaxSeqCalls begin.
OneByOne ==
    /\ calls' = IF \E p \in Procs : Began(p) \/ today' # today THEN calls + 1 ELSE calls
    /\ calls' <= MaxSeqCalls
    /\ hist' = HistRow
    /\ tally' = TallyStep
    /\ UNCHANGED <<vars, pvars, avars>>

SeqNext ==
    \/ \E u \in LUsers, l \in ParsedLists(parsed + 1) :
            AllIdle /\ StartSetUserTasks("x", u, l) /\ OneByOne
    \/ \E op \in Toggles, u \in LUsers, t \in TaskIds :
            AllIdle /\ StartToggle("x", op, u, t) /\ OneByOne
    \/ \E u \in LUsers : AllIdle /\ StartGetUser("x", u) /\ OneByOne
    \/ AllIdle /\ WeeklyTimer /\ OneByOne
    \/ \E ok \in BOOLEAN : AllIdle /\ Midnight(ok) /\ OneByOne
    \/ \E p \in Procs : LoadTasks(p) /\ OneByOne
    \/ \E p \in Procs : SaveTasks(p) /\ OneByOne
    \/ \E p \in Procs : GetUserLoad(p) /\ OneByOne
    \/ \E p \in Procs : GetUserSave(p) /\ OneByOne
    \/ \E p \in Procs : UpdLoad(p) /\ OneByOne
    \/ \E p \in Procs : UpdSave(p) /\ OneByOne
    \/ \E p \in Procs : RecapLoad(p) /\ OneByOne
    \/ \E p \in Procs : ResetLoad(p) /\ OneByOne
    \/ \E p \in Procs : ResetSave(p) /\ OneByOne

\* The same calls with no two of them in flight together.
SeqSpec == LedgerInit /\ [][SeqNext]_lvars

----------------------------------------------------------------------------
\* updateStreak by itself, from every record a user can have on a day.

\* The points a day can have ended with, on both sides of the threshold.
StreakPoints == {0, STREAK_THRESHOLD - 1, STREAK_THRESHOLD, STREAK_THRESHOLD + 5}

\* users.json on `day`: empty, or u1 with a streak that ended on an earlier
\* day or holds today; a user who was never active has no streak.
StreakStores(day) ==
    {EmptyObj} \cup
    UNION {{PutUser(EmptyObj, "u1", [defaultUser EXCEPT !.streakDays = s,
                                                        !.lastActiveDate = l]) :
                s \in {k \in 0..MaxStreak : k <= l}} : l \in NullDate..day}

StreakInit ==
    /\ MonitorOff
    /\ today \in Days
    /\ users \in StreakStores(today)
    /\ tasks = EmptyObj
    /\ teams = EmptyObj
    /\ parsed = 0
    /\ proc = [p \in Procs |-> IdleProc]
    /\ ret = NoCall
    /\ calls = 0
    /\ hist = NoHist
    /\ tally = NoTally
    /\ PureOff
    /\ ApplicationsOff

\* hist: the store when the call in flight began.
StreakCalls ==
    /\ calls' = IF \E p \in Procs : Began(p) THEN calls + 1 ELSE calls
    /\ calls' <= MaxCalls
    /\ hist' = IF \E p \in Procs : Began(p)
               THEN [users |-> users, tasks |-> tasks,
                     ops |-> <<Desc(proc'[CHOOSE p \in Procs : Began(p)])>>]
               ELSE hist
    /\ UNCHANGED <<tally, vars, pvars, avars>>

StreakNext ==
    \/ \E u \in LUsers, pointsEarned \in StreakPoints :
            AllIdle /\ StartUpdateStreak("x", u, pointsEarned) /\ StreakCalls
    \/ GetUserLoad("x") /\ StreakCalls
    \/ GetUserSave("x") /\ StreakCalls
    \/ UpdLoad("x") /\ StreakCalls
    \/ UpdSave("x") /\ StreakCalls

StreakTableSpec == StreakInit /\ [][StreakNext]_lvars

----------------------------------------------------------------------------
\* Teams: the ?team join and ?team leave commands, one command at a time.
\* A team name is the sequence of its characters; a team id is a string.

UpperCase == <<"A","B","C","D","E","F","G","H","I","J","K","L","M",
               "N","O","P","Q","R","S","T","U","V","W","X","Y","Z">>
LowerCase == <<"a","b","c","d","e","f","g","h","i","j","k","l","m",
               "n","o","p","q","r","s","t","u","v","w","x","y","z">>
Digits == {"0","1","2","3","4","5","6","7","8","9"}
Whitespace == {" "}

\* The names members type after ?team join.
TeamNames == {<<"A">>, <<"a">>, <<"a", " ", "b">>, <<"b", "!">>, <<>>}

\* teamName.toLowerCase()
toLowerCase(s) ==
    [i \in 1..Len(s) |->
        IF \E k \in 1..Len(UpperCase) : UpperCase[k] = s[i]
        THEN LowerCase[CHOOSE k \in 1..Len(UpperCase) : UpperCase[k] = s[i]]
        ELSE s[i]]

RECURSIVE skipSpaces(_)
skipSpaces(s) ==
    IF s # <<>> /\ Head(s) \in Whitespace THEN skipSpaces(Tail(s)) ELSE s

\* .replace(/\s+/g, '-')
RECURSIVE dashSpaces(_)
dashSpaces(s) ==
    IF s = <<>> THEN <<>>
    ELSE IF Head(s) \in Whitespace THEN <<"-">> \o dashSpaces(skipSpaces(s))
    ELSE <<Head(s)>> \o dashSpaces(Tail(s))

\* .replace(/[^a-z0-9-]/g, '')
IsIdChar(c) == \/ \E k \in 1..Len(LowerCase) : LowerCase[k] = c
               \/ c \in Digits
               \/ c = "-"
keepIdChars(s) == SelectSeq(s, IsIdChar)

RECURSIVE Str(_)
Str(s) == IF s = <<>> THEN "" ELSE Head(s) \o Str(Tail(s))

TeamIdOf(teamName) == Str(keepIdChars(dashSpaces(toLowerCase(teamName))))

\* !teamName || teamName.trim().length === 0
Blank(teamName) == \A i \in 1..Len(teamName) : teamName[i] \in Whitespace

\* A team id as a condition: null and the empty string are falsy.
Truthy(teamId) == teamId # Null /\ teamId # ""

Includes(members, u) == \E i \in 1..Len(members) : members[i] = u
Without(members, u) == SelectSeq(members, LAMBDA id : id # u)
PutTeam(ts, t, rec) == [x \in DOMAIN ts \cup {t} |-> IF x = t THEN rec ELSE ts[x]]

\* users.json after getUser(userId): a missing user is created and saved.
getUserNow(us, u) == IF u \in DOMAIN us THEN us ELSE PutUser(us, u, defaultUser)

\* teams.json after createTeam, for a teamId that is not a key (createdAt left out).
createTeam(ts, teamId, teamName, creatorId) ==
    PutTeam(ts, teamId, [id |-> teamId, name |-> teamName,
                         members |-> <<creatorId>>,
                         weeklyPoints |-> 0, seasonPoints |-> 0])

\* The teams object after the filter of the user's old team: teams[user.teamId]
\* exists and loses userId, or nothing changes.
leftOld(ts, user, u) ==
    IF Truthy(user.teamId) /\ user.teamId \in DOMAIN ts
    THEN [ts EXCEPT ![user.teamId].members = Without(@, u)]
    ELSE ts

\* teams.json after addUserToTeam, for a teamId that is a key.
addUserToTeam(ts, user, u, teamId) ==
    LET left == leftOld(ts, user, u)
    IN IF Includes(left[teamId].members, u) THEN left
       ELSE [left EXCEPT ![teamId].members = Append(@, u)]

\* handleTeamJoinCommand
TeamJoin(u, teamName) ==
    IF Blank(teamName) THEN UNCHANGED <<users, teams>>
    ELSE LET teamId == TeamIdOf(teamName)
         IN IF teamId \notin DOMAIN teams
            THEN /\ teams' = createTeam(teams, teamId, teamName, u)
                 /\ UNCHANGED users
            ELSE LET us == getUserNow(users, u)
                 IN /\ teams' = addUserToTeam(teams, us[u], u, teamId)
                    /\ users' = PutUser(us, u, Merge(us[u], [teamId |-> teamId]))

\* handleTeamLeaveCommand, removeUserFromTeam
TeamLeave(u) ==
    LET us == getUserNow(users, u)
    IN IF ~Truthy(us[u].teamId)
       THEN /\ users' = us
            /\ UNCHANGED teams
       ELSE /\ teams' = leftOld(teams, us[u], u)
            /\ users' = PutUser(us, u, Merge(us[u], [teamId |-> Null]))

TeamFrame == UNCHANGED <<tasks, today, parsed, proc, ret, calls, hist, tally, vars, pvars, avars>>

TeamNext ==
    \/ \E u \in LUsers, teamName \in TeamNames : TeamJoin(u, teamName) /\ TeamFrame
    \/ \E u \in LUsers : TeamLeave(u) /\ TeamFrame

TeamSpec == LedgerInit /\ [][TeamNext]_lvars

----------------------------------------------------------------------------
\* Leaderboards (src/src/gamification.js)

\* Most users in the object getAllUsers returns, and most teams in teams.json.
MaxBoard == 3

\* What a user's record can hold in the fields a leaderboard reads.
Profiles ==
    {[todayPoints |-> 30, weeklyPoints |-> 30, seasonPoints |-> 40,
      internshipPoints |-> 0, streakDays |-> 1],
     [todayPoints |-> 0, weeklyPoints |-> 30, seasonPoints |-> 40,
      internshipPoints |-> 12, streakDays |-> 0],
     [todayPoints |-> 10, weeklyPoints |-> 10, seasonPoints |-> 10,
      internshipPoints |-> 0, streakDays |-> 1],
     [todayPoints |-> 0, weeklyPoints |-> 0, seasonPoints |-> 0,
      internshipPoints |-> 0, streakDays |-> 0]}

WithId(rec, id) == [f \in DOMAIN rec \cup {"userId"} |-> IF f = "userId" THEN id ELSE rec[f]]

\* Object.values(users): the records in insertion order of their keys; the
\* userId of a record is its place in that order.
UserArrays ==
    {[i \in 1..Len(s) |-> WithId(s[i], i)] : s \in SeqsUpTo(Profiles, MaxBoard)}

BoardTypes == {"today", "week", "season", "internship", "streak", "other"}

\* The limits a caller passes: none of the users, some, all (the command passes 10).
BoardLimits == {0, 1, 2, 10}

\* The switch on type.
SortKeyOf(type) ==
    CASE type = "today" -> "todayPoints"
      [] type = "week" -> "weeklyPoints"
      [] type = "season" -> "seasonPoints"
      [] type = "internship" -> "internshipPoints"
      [] type = "streak" -> "streakDays"
      [] OTHER -> "todayPoints"

\* Variant: an element goes before the elements it compares equal to.
InsertDesc_BeforeEqual(sorted, x, key) ==
    LET n == Cardinality({i \in 1..Len(sorted) : sorted[i][key] > x[key]})
    IN SubSeq(sorted, 1, n) \o <<x>> \o SubSeq(sorted, n + 1, Len(sorted))

\* One step of the stable sort with (a, b) => b[key] - a[key]: x goes after
\* every element that does not compare after it.
InsertDesc(sorted, x, key) ==
    LET n == Cardinality({i \in 1..Len(sorted) : sorted[i][key] >= x[key]})
    IN SubSeq(sorted, 1, n) \o <<x>> \o SubSeq(sorted, n + 1, Len(sorted))

\* array.sort((a, b) => (b[key] || 0) - (a[key] || 0)); Array.prototype.sort is stable.
RECURSIVE SortDesc(_, _)
SortDesc(arr, key) ==
    IF arr = <<>> THEN <<>>
    ELSE InsertDesc(SortDesc(SubSeq(arr, 1, Len(arr) - 1), key), arr[Len(arr)], key)

\* array.slice(0, limit) for limit >= 0
Slice0(arr, limit) == SubSeq(arr, 1, IF limit < Len(arr) THEN limit ELSE Len(arr))

\* getLeaderboard after getAllUsers resolved (the title is left out).
getLeaderboard(userArray, type, limit) ==
    LET sortKey == SortKeyOf(type)
        filtered == SelectSeq(SortDesc(userArray, sortKey), LAMBDA user : user[sortKey] > 0)
    IN [users |-> Slice0(filtered, limit), sortKey |-> sortKey]

BoardInit ==
    /\ MonitorOff
    /\ DatabaseOff
    /\ args \in {<<[users |-> a, type |-> t, limit |-> l]>> :
                    a \in UserArrays, t \in BoardTypes, l \in BoardLimits}
    /\ result = <<>>

GetLeaderboard ==
    /\ result = <<>>
    /\ result' = <<getLeaderboard(args[1].users, args[1].type, args[1].limit)>>
    /\ UNCHANGED <<args, users, tasks, teams, today, parsed, proc, ret, calls, hist,
                   tally, vars, avars>>

BoardNext == GetLeaderboard

BoardSpec == BoardInit /\ [][BoardNext]_lvars

\* The members lists of a team: user ids as places in the users object;
\* a member need not have a user record.
MemberLists == {<<>>, <<1>>, <<2>>, <<1, 3>>}

\* Object.values(teams): teams.json holds weeklyPoints 0 and seasonPoints 0 for
\* every team (createTeam writes them and nothing else does); the id of a
\* team is its place in the order.
TeamArrays ==
    {[i \in 1..Len(s) |-> [id |-> i, members |-> s[i], weeklyPoints |-> 0,
                           seasonPoints |-> 0]] :
        s \in SeqsUpTo(MemberLists, MaxBoard - 1)}

TeamTypes == {"today", "week", "season"}

\* team.members.forEach(...): the total of the members that have a user record.
RECURSIVE totalPoints(_, _, _)
totalPoints(members, us, type) ==
    IF members = <<>> THEN 0
    ELSE totalPoints(Tail(members), us, type) +
         (IF Head(members) \in DOMAIN us
          THEN CASE type = "week" -> us[Head(members)].weeklyPoints
                 [] type = "season" -> us[Head(members)].seasonPoints
                 [] OTHER -> us[Head(members)].todayPoints
          ELSE 0)

\* getTeamLeaderboard after loadTeams and getAllUsers resolved (the title is left out).
getTeamLeaderboard(teamArray, us, type, limit) ==
    LET summed == [i \in 1..Len(teamArray) |->
                    IF type = "week"
                    THEN [teamArray[i] EXCEPT
                            !.weeklyPoints = totalPoints(teamArray[i].members, us, type)]
                    ELSE [teamArray[i] EXCEPT
                            !.seasonPoints = totalPoints(teamArray[i].members, us, type)]]
        sortKey == IF type = "season" THEN "seasonPoints" ELSE "weeklyPoints"
        filtered == SelectSeq(SortDesc(summed, sortKey), LAMBDA team : team[sortKey] > 0)
    IN [teams |-> Slice0(filtered, limit), sortKey |-> sortKey]

TeamBoardInit ==
    /\ MonitorOff
    /\ DatabaseOff
    /\ args \in {<<[teams |-> t, users |-> a, type |-> ty, limit |-> l]>> :
                    t \in TeamArrays, a \in UserArrays, ty \in TeamTypes,
                    l \in {1, 10}}
    /\ result = <<>>

GetTeamLeaderboard ==
    /\ result = <<>>
    /\ result' = <<getTeamLeaderboard(args[1].teams, args[1].users, args[1].type,
                                      args[1].limit)>>
    /\ UNCHANGED <<args, users, tasks, teams, today, parsed, proc, ret, calls, hist,
                   tally, vars, avars>>

TeamBoardNext == GetTeamLeaderboard

TeamBoardSpec == TeamBoardInit /\ [][TeamBoardNext]_lvars

----------------------------------------------------------------------------
\* The /check slash command (src/src/index.js, interactionCreate)

CheckedReply == "Checked for new listings!"
ErrorReply == "Error checking for listings. Check console for details."

\* Whether a checkForUpdates call that ended with e rejected: its try block
\* spans the whole body and its catch block logs and returns, for every e.
checkForUpdatesRejects(e) == FALSE

\* The /check handler after `await checkForUpdates(...)`: interaction.editReply
\* in the try block, or in the catch block when the call rejected.
editReply(e) == IF checkForUpdatesRejects(e) THEN ErrorReply ELSE CheckedReply

----------------------------------------------------------------------------
\* The task parser (src/unnamed/part_003, imported as ./task-parser.js)
\* A task text is a sequence of lines; a line is a bullet or number prefix
\* (or none) and a sequence of words; a description is a sequence of words.

\* Most lines of a task text, and most tasks in an answer of the API.
MaxLines == 2

\* The keywords of the parser that a word contains as a substring.
KeywordsIn(word) ==
    CASE word = "apply" -> {"apply"}
      [] word = "study" -> {"study"}
      [] word = "gym" -> {"gym"}
      [] word = "drink" -> {"drink"}
      [] word = "water" -> {"water"}
      [] word = "start" -> {"start"}
      [] word = "create" -> {"eat"}
      [] OTHER -> {}

\* The value of a word that is a decimal number, through parseInt; -1 for other words.
NumberOf(word) ==
    CASE word = "3" -> 3
      [] word = "7" -> 7
      [] OTHER -> 0 - 1

TextLines ==
    {[prefix |-> "", words |-> <<>>],
     [prefix |-> "-", words |-> <<>>],
     [prefix |-> "", words |-> <<"apply", "7">>],
     [prefix |-> "1.", words |-> <<"study">>],
     [prefix |-> "-", words |-> <<"gym", "3">>],
     [prefix |-> "", words |-> <<"drink", "water">>],
     [prefix |-> "*", words |-> <<"create", "essay">>],
     [prefix |-> "", words |-> <<"start", "essay">>]}

TaskTexts == SeqsUpTo(TextLines, MaxLines)

\* lower.includes(keyword)
includes(words, keyword) == \E i \in 1..Len(words) : keyword \in KeywordsIn(words[i])

\* difficultyToPoints, for a whole difficulty
difficultyToPoints(difficulty) ==
    IF difficulty <= 2 THEN 1
    ELSE IF difficulty <= 4 THEN (difficulty * 75) \div 100 + 1
    ELSE IF difficulty <= 6 THEN (difficulty * 9) \div 10 + 1
    ELSE IF difficulty <= 8 THEN (difficulty * 11) \div 10 - 1
    ELSE IF difficulty + 2 < 15 THEN difficulty + 2 ELSE 15

\* Math.round(n / d) for n >= 0, d > 0
RoundDiv(n, d) == (2 * n + d) \div (2 * d)

\* applyCategoryMultiplier
applyCategoryMultiplier(points, category) ==
    CASE category = "internship" -> RoundDiv(points * 15, 10)
      [] category \in {"health", "misc"} -> RoundDiv(points * 8, 10)
      [] OTHER -> points

\* Math.max(lo, Math.min(hi, n))
Clamp(lo, hi, n) == IF n < lo THEN lo ELSE IF n > hi THEN hi ELSE n

\* isVagueTask: a trivial task is named somewhere, or the description starts
\* with one of the vague words.
isVagueTask(words) ==
    \/ \E i \in 1..Len(words) - 1 :
            "drink" \in KeywordsIn(words[i]) /\ "water" \in KeywordsIn(words[i + 1])
    \/ includes(words, "eat")
    \/ words # <<>> /\ KeywordsIn(words[1]) \cap {"drink", "check", "just"} # {}

\* The category parseTasksHeuristic detects.
categoryOf(words) ==
    IF includes(words, "apply") THEN "internship"
    ELSE IF includes(words, "study") THEN "academics"
    ELSE IF includes(words, "leetcode") THEN "skill"
    ELSE IF includes(words, "gym") THEN "health"
    ELSE "misc"

\* The first number in the line, or -1.
firstNumber(words) ==
    IF \E i \in 1..Len(words) : NumberOf(words[i]) >= 0
    THEN NumberOf(words[CHOOSE i \in 1..Len(words) :
                            /\ NumberOf(words[i]) >= 0
                            /\ \A j \in 1..i - 1 : NumberOf(words[j]) < 0])
    ELSE 0 - 1

\* The difficulty parseTasksHeuristic estimates, clamped to 1..10.
difficultyOf(words) ==
    LET base == IF isVagueTask(words) THEN 1
                ELSE IF includes(words, "apply") THEN 7
                ELSE IF includes(words, "study") THEN 6
                ELSE IF includes(words, "start") THEN 4
                ELSE 5
        num == firstNumber(words)
    IN Clamp(1, 10, base + (IF num > 5 THEN 2 ELSE IF num > 2 THEN 1 ELSE 0))

\* The task object both parsers build (the time in the id is left out).
NewTask(index, words, category, difficulty, points) ==
    [id |-> index, description |-> words, category |-> category,
     difficulty |-> difficulty, points |-> points, completed |-> FALSE]

\* parseTasksHeuristic: blank lines are dropped, then a line that is only a
\* prefix gives no task but uses up its index.
parseTasksHeuristic(text) ==
    LET lines == SelectSeq(text, LAMBDA l : l.prefix # "" \/ l.words # <<>>)
        kept == SelectSeq([i \in 1..Len(lines) |-> [index |-> i - 1, words |-> lines[i].words]],
                          LAMBDA l : l.words # <<>>)
    IN [i \in 1..Len(kept) |->
            LET words == kept[i].words
                category == categoryOf(words)
                difficulty == difficultyOf(words)
            IN NewTask(kept[i].index, words, category, difficulty,
                       Clamp(1, 15, applyCategoryMultiplier(difficultyToPoints(difficulty),
                                                            category)))]

\* What becomes of the request to the API: no key is set; fetch rejects; the
\* status is not 2xx; the body is not JSON; the JSON has no choices; the
\* message content is not JSON; it is JSON but no array; it is an array.
ApiOutcomes == {"noKey", "fetchRejects", "notOk", "bodyNotJson", "noChoices",
                "contentNotJson", "notArray", "array"}

\* The tasks an answer of the API can list: description (<<>> when the field
\* is missing, else <<words>>), category ("" when missing), difficulty (0
\* when missing).
ApiTasks ==
    {[description |-> << <<"apply">> >>, category |-> "internship", difficulty |-> 10],
     [description |-> << <<"drink", "water">> >>, category |-> "health", difficulty |-> 3],
     [description |-> << <<"essay">> >>, category |-> "", difficulty |-> 0],
     [description |-> <<>>, category |-> "misc", difficulty |-> 12]}

ApiLists == SeqsUpTo(ApiTasks, MaxLines)

RECURSIVE SumPoints(_)
SumPoints(ts) == IF ts = <<>> THEN 0 ELSE Head(ts).points + SumPoints(Tail(ts))

\* "Convert to our format": one task of the API's array.
convertTask(task, index) ==
    LET difficulty == Clamp(1, 10, IF task.difficulty = 0 THEN 5 ELSE task.difficulty)
        category == IF task.category = "" THEN "misc" ELSE task.category
        points == Clamp(1, 15, applyCategoryMultiplier(difficultyToPoints(difficulty),
                                                       category))
        vague == isVagueTask(task.description[1])
    IN NewTask(index, task.description[1], category,
               IF vague THEN 1 ELSE difficulty, IF vague THEN 1 ELSE points)

\* "Scale down if total exceeds 50 points"
rescale(ts) ==
    LET total == SumPoints(ts)
    IN IF total > 50
       THEN [i \in 1..Len(ts) |->
                [ts[i] EXCEPT !.points =
                    IF RoundDiv(@ * 50, total) < 1 THEN 1
                    ELSE RoundDiv(@ * 50, total)]]
       ELSE ts

\* Variant: an answer that cannot be used gives no tasks.
parseTasksWithLLM_NoFallback(text, outcome, list) ==
    IF outcome = "noKey" THEN parseTasksHeuristic(text)
    ELSE IF outcome # "array" \/ \E i \in 1..Len(list) : list[i].description = <<>>
    THEN <<>>
    ELSE rescale([i \in 1..Len(list) |-> convertTask(list[i], i - 1)])

\* parseTasksWithLLM: without a key the heuristic parser; anything thrown in
\* the try block (isVagueTask of a missing description included) is caught
\* and the heuristic parser runs.
parseTasksWithLLM(text, outcome, list) ==
    IF outcome = "noKey" THEN parseTasksHeuristic(text)
    ELSE IF outcome # "array" \/ \E i \in 1..Len(list) : list[i].description = <<>>
    THEN parseTasksHeuristic(text)
    ELSE rescale([i \in 1..Len(list) |-> convertTask(list[i], i - 1)])

\* !taskText || taskText.trim().length === 0
BlankText(text) == \A i \in 1..Len(text) : text[i].prefix = "" /\ text[i].words = <<>>

\* parseTasks
parseTasks(text, outcome, list) ==
    IF BlankText(text) THEN <<>> ELSE parseTasksWithLLM(text, outcome, list)

ParseInit ==
    /\ MonitorOff
    /\ DatabaseOff
    /\ args \in {<<[text |-> t, outcome |-> o, list |-> l]>> :
                    t \in TaskTexts, o \in ApiOutcomes,
                    l \in ApiLists}
    /\ (args[1].outcome # "array" => args[1].list = <<>>)
    /\ result = <<>>

ParseTasks ==
    /\ result = <<>>
    /\ result' = <<parseTasks(args[1].text, args[1].outcome, args[1].list)>>
    /\ UNCHANGED <<args, users, tasks, teams, today, parsed, proc, ret, calls, hist,
                   tally, vars, avars>>

ParseNext == ParseTasks

ParseSpec == ParseInit /\ [][ParseNext]_lvars

----------------------------------------------------------------------------
\* The "I Applied" button (src/src/interactions.js, handleInteraction).
\* Reads and writes of applications.json are taken to succeed.

\* Most clicks that begin in one behaviour.
MaxClicks == 3

\* applications[listingId]?.includes(userId) || false
hasApplied(apps, u, l) == l \in DOMAIN apps /\ Includes(apps[l], u)

\* recordApplication on the loaded object: the entry is created when
\* missing and the user id pushed when the entry does not include it.
pushApplication(apps, u, l) ==
    [x \in DOMAIN apps \cup {l} |->
        IF x = l
        THEN LET entry == IF l \in DOMAIN apps THEN apps[l] ELSE <<>>
             IN IF Includes(entry, u) THEN entry ELSE Append(entry, u)
        ELSE apps[x]]

ClickGoes(k, c) ==
    /\ click' = [click EXCEPT ![k] = c]
    /\ clicks' = IF click[k].pc = "idle" THEN clicks + 1 ELSE clicks
    /\ clicks' <= MaxClicks

\* A member clicks the button of listing l: handleInteraction runs to the
\* read of hasApplied.
Click(k, u, l) ==
    /\ click[k].pc = "idle"
    /\ ClickGoes(k, [IdleClick EXCEPT !.pc = "hasApplied", !.u = u, !.l = l])
    /\ UNCHANGED <<applications, sent, replied>>

\* hasApplied: loadApplications resolves. "You've already marked this
\* application" and return, or recordApplication runs to its read.
HasAppliedLoaded(k) ==
    /\ click[k].pc = "hasApplied"
    /\ ClickGoes(k, IF hasApplied(applications, click[k].u, click[k].l)
                    THEN IdleClick
                    ELSE [click[k] EXCEPT !.pc = "record"])
    /\ UNCHANGED <<applications, sent, replied>>

\* recordApplication: loadApplications resolves. The id is pushed and
\* saveApplications called, or false is returned ("Error recording application").
RecordLoaded(k) ==
    /\ click[k].pc = "record"
    /\ ClickGoes(k, IF hasApplied(applications, click[k].u, click[k].l)
                    THEN IdleClick
                    ELSE [click[k] EXCEPT !.pc = "save",
                            !.buf = pushApplication(applications, click[k].u, click[k].l)])
    /\ UNCHANGED <<applications, sent, replied>>

\* saveApplications writes the object the click holds; recordApplication
\* returns true and the confirmation is sent to the channel.
RecordSaved(k) ==
    /\ click[k].pc = "save"
    /\ applications' = click[k].buf
    /\ sent' = [sent EXCEPT ![click[k].u, click[k].l] = @ + 1]
    /\ ClickGoes(k, [click[k] EXCEPT !.pc = "send", !.buf = EmptyObj])
    /\ UNCHANGED replied

\* channel.send resolves and the member is told "Your application has been
\* recorded", or it rejects and handleInteraction ends.
Confirmed(k, ok) ==
    /\ click[k].pc = "send"
    /\ replied' = IF ok THEN replied \cup {<<click[k].u, click[k].l>>} ELSE replied
    /\ ClickGoes(k, IdleClick)
    /\ UNCHANGED <<applications, sent>>

ApplyFrame == UNCHANGED <<users, tasks, teams, today, parsed, proc, ret, calls, hist,
                          tally, vars, pvars>>

ApplyNext ==
    \/ \E k \in Clicks, u \in LUsers, l \in Listings : Click(k, u, l) /\ ApplyFrame
    \/ \E k \in Clicks : HasAppliedLoaded(k) /\ ApplyFrame
    \/ \E k \in Clicks : RecordLoaded(k) /\ ApplyFrame
    \/ \E k \in Clicks : RecordSaved(k) /\ ApplyFrame
    \/ \E k \in Clicks, ok \in BOOLEAN : Confirmed(k, ok) /\ ApplyFrame

ApplySpec == LedgerInit /\ [][ApplyNext]_lvars

----------------------------------------------------------------------------
\* The listing id: parseInternshipListings builds it from the company, role
\* and location of a row.  Fields are sequences of characters.

\* Companies, roles and locations as they come out of a row, trimmed.
FieldTexts == {<<"A", "c">>, <<"a", "c">>, <<"S", " ", "1">>,
               <<"N", ",", " ", "y">>, <<"a", "-", "b">>}

\* a-zA-Z0-9-
IsAlnumDash(c) == \/ IsIdChar(c)
                  \/ \E k \in 1..Len(UpperCase) : UpperCase[k] = c

\* .replace(/[^a-zA-Z0-9-]/g, '-')
dashOthers(s) == [i \in 1..Len(s) |-> IF IsAlnumDash(s[i]) THEN s[i] ELSE "-"]

\* `${company}-${role}-${location}`
joinFields(company, role, location) ==
    company \o <<"-">> \o role \o <<"-">> \o location

listingId_NoLower(company, role, location) ==
    dashOthers(joinFields(company, role, location))

\* id: `${company}-${role}-${location}`.replace(...).toLowerCase()
listingId(company, role, location) ==
    toLowerCase(dashOthers(joinFields(company, role, location)))

Triples == [company : FieldTexts, role : FieldTexts, location : FieldTexts]

\* Two rows, parsed by the same poll or by two polls, one after the other.
IdInit ==
    /\ MonitorOff
    /\ DatabaseOff
    /\ args \in {<<a, b>> : a \in Triples, b \in Triples}
    /\ result = <<>>

Identify ==
    /\ Len(result) < Len(args)
    /\ LET t == args[Len(result) + 1]
       IN  result' = Append(result, listingId(t.company, t.role, t.location))
    /\ UNCHANGED <<args, users, tasks, teams, today, parsed, proc, ret, calls, hist,
                   tally, vars, avars>>

IdNext == Identify

IdSpec == IdInit /\ [][IdNext]_lvars

----------------------------------------------------------------------------
\* parseInternshipListings (the markdown version of github-monitor.js) on a
\* README given as a sequence of tokens.  A token is one character of the
\* markup ("|", "*", "[", "]", "(", ")", a line break, the lock sign), or a
\* heading or word written without any of these.

MaxRows == 2

LineBreak == "\n"
Lock == "LOCK"

\* \s
RowSpace == {" ", LineBreak}

\* The category sections the parser looks for, in the order of sectionPatterns.
sectionPatterns == <<"SoftwareEngineering", "ProductManagement", "DataScienceAI",
                     "QuantitativeFinance", "HardwareEngineering">>

\* A line that starts with "## ": the heading of a category, or another one.
HeadingOf(category) == "## " \o category
OtherHeading == "## Other"
Headings == {HeadingOf(sectionPatterns[k]) : k \in 1..Len(sectionPatterns)}
                \cup {OtherHeading}

\* Character classes of tableRowRegex.
InClass(c, t) ==
    CASE c = "pipe"    -> t = "|"
      [] c = "star"    -> t = "*"
      [] c = "lbr"     -> t = "["
      [] c = "rbr"     -> t = "]"
      [] c = "lpar"    -> t = "("
      [] c = "rpar"    -> t = ")"
      [] c = "ws"      -> t \in RowSpace
      [] c = "notRbr"  -> t # "]"
      [] c = "notRpar" -> t # ")"
      [] c = "notPipe" -> t # "|"

One(c)  == [q |-> "one", c |-> c]
Opt(c)  == [q |-> "opt", c |-> c]
Star(c) == [q |-> "star", c |-> c]
Plus(c) == [q |-> "plus", c |-> c]

\* \s*([^|]+)\s*\|
CellPart == <<Star("ws"), Plus("notPipe"), Star("ws"), One("pipe")>>

\* /\|\s*\*\*\[?([^\]]+)\]?\(?[^\)]*\)?\*\*\s*\|\s*([^|]+)\s*\|\s*([^|]+)\s*\|
\*  \s*([^|]+)\s*\|\s*([^|]+)\s*\|/g
tableRowRegex ==
    <<One("pipe"), Star("ws"), One("star"), One("star"), Opt("lbr"),
      Plus("notRbr"), Opt("rbr"), Opt("lpar"), Star("notRpar"), Opt("rpar"),
      One("star"), One("star"), Star("ws"), One("pipe")>>
    \o CellPart \o CellPart \o CellPart \o CellPart

\* The parts of tableRowRegex that are capture groups 1 to 5.
GroupPart == <<6, 16, 20, 24, 28>>

Lowest(S) == CHOOSE i \in S : \A j \in S : i <= j

\* How many tokens from pos on are in class c.
RunOf(s, c, pos) ==
    LET stops == {i \in pos..Len(s) : ~InClass(c, s[i])}
    IN  IF stops = {} THEN Len(s) + 1 - pos ELSE Lowest(stops) - pos

Least(q) == IF q \in {"one", "plus"} THEN 1 ELSE 0
Most(q, run) == IF q \in {"one", "opt"} /\ run > 1 THEN 1 ELSE run

\* The regular expression engine: the parts from k on matched at pos, every
\* quantifier greedy, so that a part takes the most tokens with which the
\* parts after it still match.  The result is the start of each part
\* followed by the end of the match, or <<>> for no match.
RECURSIVE matchAt(_, _, _)
matchAt(s, k, pos) ==
    IF k > Len(tableRowRegex) THEN <<pos>>
    ELSE LET part == tableRowRegex[k]
             most == Most(part.q, RunOf(s, part.c, pos))
             rest == {<<n, matchAt(s, k + 1, pos + n)>> : n \in Least(part.q)..most}
             fits == {r \in rest : r[2] # <<>>}
             best == CHOOSE r \in fits : \A o \in fits : r[1] >= o[1]
         IN  IF fits = {} THEN <<>> ELSE <<pos>> \o best[2]

\* tableRowRegex.exec(sectionContent) with lastIndex = from - 1
exec(s, from) ==
    LET starts == {i \in from..Len(s) : matchAt(s, 1, i) # <<>>}
    IN  IF starts = {} THEN <<>> ELSE matchAt(s, 1, Lowest(starts))

\* .trim()
RECURSIVE trimStart(_)
trimStart(s) == IF s # <<>> /\ Head(s) \in RowSpace THEN trimStart(Tail(s)) ELSE s
RECURSIVE trimEnd(_)
trimEnd(s) ==
    IF s # <<>> /\ s[Len(s)] \in RowSpace THEN trimEnd(SubSeq(s, 1, Len(s) - 1)) ELSE s
trim(s) == trimEnd(trimStart(s))

\* match[g].trim()
Group(s, m, g) == trim(SubSeq(s, m[GroupPart[g]], m[GroupPart[g] + 1] - 1))

\* applicationColumn.match(/\[label\]\(([^\)]+)\)/): the link text, <<>> if none
RECURSIVE linkOf(_, _, _)
linkOf(col, label, i) ==
    IF i + 5 > Len(col) THEN <<>>
    ELSE LET run == RunOf(col, "notRpar", i + 4)
         IN  IF /\ SubSeq(col, i, i + 3) = <<"[", label, "]", "(">>
                /\ run >= 1
                /\ i + 4 + run <= Len(col)
             THEN SubSeq(col, i + 4, i + 3 + run)
             ELSE linkOf(col, label, i + 1)

\* Extract Apply link (prefer Apply over Simplify)
applyLinkOf(col) ==
    IF linkOf(col, "Apply", 1) # <<>> THEN trim(linkOf(col, "Apply", 1))
    ELSE trim(linkOf(col, "Simplify", 1))

hasLock(s) == \E i \in 1..Len(s) : s[i] = Lock

\* The body of the while loop for one match: the listing pushed, if any.
listingOf(s, m, category) ==
    LET company == Group(s, m, 1)
        role == Group(s, m, 2)
        location == Group(s, m, 3)
        applicationColumn == Group(s, m, 4)
        age == Group(s, m, 5)
        applyLink == applyLinkOf(applicationColumn)
    IN  IF hasLock(applicationColumn) \/ hasLock(role) \/ hasLock(company) THEN <<>>
        ELSE IF applyLink = <<>> \/ applyLink = <<Lock>> THEN <<>>
        ELSE <<[company |-> company, role |-> role, location |-> location,
                applyLink |-> applyLink, age |-> age, category |-> category]>>

\* while ((match = tableRowRegex.exec(sectionContent)) !== null) { ... }
RECURSIVE rowsFrom(_, _, _)
rowsFrom(s, from, category) ==
    LET m == exec(s, from)
    IN  IF m = <<>> THEN <<>>
        ELSE listingOf(s, m, category) \o rowsFrom(s, m[Len(m)], category)

\* readmeContent.match(section.pattern): the heading and what follows it up
\* to the next "## " or the end of the README; <<>> if the heading is absent.
sectionMatch(readme, category) ==
    LET heads == {i \in 1..Len(readme) : readme[i] = HeadingOf(category)}
        first == Lowest(heads)
        nexts == {i \in (first + 1)..Len(readme) : readme[i] \in Headings}
    IN  IF heads = {} THEN <<>>
        ELSE IF nexts = {} THEN SubSeq(readme, first, Len(readme))
        ELSE SubSeq(readme, first, Lowest(nexts) - 1)

\* for (const section of sectionPatterns) { ... }
RECURSIVE sectionsFrom(_, _)
sectionsFrom(readme, k) ==
    IF k > Len(sectionPatterns) THEN <<>>
    ELSE rowsFrom(sectionMatch(readme, sectionPatterns[k]), 1, sectionPatterns[k])
            \o sectionsFrom(readme, k + 1)

parseInternshipListings(readmeContent) == sectionsFrom(readmeContent, 1)

\* The rows of a README table, as their author means them: the company in
\* bold, as a link or as plain text, three or five cells, the application
\* cell with an Apply link, a Simplify link, both, the lock sign or no link,
\* and possibly the lock sign after the company or the role.
AppKinds == {"apply", "simplify", "both", "closed", "none"}
RowForms ==
    {f \in [linked : BOOLEAN, cells : {3, 5}, app : AppKinds,
            lockedAt : {"nowhere", "company", "role"}] :
        /\ (f.cells = 3 => f.app = "apply" /\ f.lockedAt = "nowhere")
        /\ (f.lockedAt # "nowhere" => f.app = "apply")}

Word(prefix, i) == prefix \o ToString(i)

\* |cell|cell| ... written without blanks around the cells
Cell(c) == c \o <<"|">>
Link(label, url) == <<"[", label, "]", "(", url, ")">>

RowText(i, f) ==
    LET name == IF f.lockedAt = "company" THEN <<Word("C", i), Lock>>
                ELSE <<Word("C", i)>>
        company == IF f.linked
                   THEN <<"*", "*", "[">> \o name \o <<"]", "(", "x", ")", "*", "*">>
                   ELSE <<"*", "*">> \o name \o <<"*", "*">>
        role == IF f.lockedAt = "role" THEN <<Word("R", i), Lock>>
                ELSE <<Word("R", i)>>
        app == CASE f.app = "apply"    -> Link("Apply", Word("a", i))
                 [] f.app = "simplify" -> Link("Simplify", Word("s", i))
                 [] f.app = "both"     -> Link("Apply", Word("a", i)) \o <<" ">>
                                           \o Link("Simplify", Word("s", i))
                 [] f.app = "closed"   -> <<Lock>>
                 [] f.app = "none"     -> <<"soon">>
    IN  <<"|">> \o Cell(company) \o Cell(role) \o Cell(<<Word("L", i)>>)
            \o (IF f.cells = 5 THEN Cell(app) \o Cell(<<Word("d", i)>>) ELSE <<>>)
            \o <<LineBreak>>

RECURSIVE TableText(_, _)
TableText(rows, i) ==
    IF i > Len(rows) THEN <<>> ELSE RowText(i, rows[i]) \o TableText(rows, i + 1)

\* A README with one table under one heading.
ReadmeText(heading, rows) ==
    <<"# Internships", LineBreak, heading, LineBreak>> \o TableText(rows, 1)

RowLists == UNION {[1..n -> RowForms] : n \in 0..MaxRows}

ListingsInit ==
    /\ MonitorOff
    /\ DatabaseOff
    /\ args \in {<<[heading |-> h, rows |-> r]>> :
                    h \in {HeadingOf("SoftwareEngineering"),
                           HeadingOf("HardwareEngineering"), OtherHeading},
                    r \in RowLists}
    /\ result = <<>>

ParseListings ==
    /\ result = <<>>
    /\ result' = <<parseInternshipListings(ReadmeText(args[1].heading, args[1].rows))>>
    /\ UNCHANGED <<args, users, tasks, teams, today, parsed, proc, ret, calls, hist,
                   tally, vars, avars>>

ListingsNext == ParseListings

ListingsSpec == ListingsInit /\ [][ListingsNext]_lvars

----------------------------------------------------------------------------
\* One upstream document for as long as the bot runs: the monitor with every
\* step but the change of the document.
StartNext ==
    \/ MonitorStart /\ UNCHANGED lvars
    \/ \E ok \in BOOLEAN : MonitorLoaded(ok) /\ UNCHANGED lvars
    \/ IntervalTick /\ UNCHANGED lvars
    \/ ManualCheck /\ UNCHANGED lvars
    \/ \E p \in Polls, ok \in BOOLEAN : FetchDone(p, ok) /\ UNCHANGED lvars
    \/ \E p \in Polls, r \in {"ok", "none", "throw"} : ChannelFetched(p, r) /\ UNCHANGED lvars
    \/ \E p \in Polls, ok \in BOOLEAN : SendDone(p, ok) /\ UNCHANGED lvars
    \/ \E p \in Polls, ok \in BOOLEAN : SaveMkdir(p, ok) /\ UNCHANGED lvars
    \/ \E p \in Polls, r \in {"ok", "fail", "partial"} : SaveWrite(p, r) /\ UNCHANGED lvars
    \/ Restart /\ UNCHANGED lvars

StartSpec == Init /\ [][StartNext]_vars

----------------------------------------------------------------------------
\* completeTask and uncompleteTask with the two counters of the internship
\* statistics, applicationsSubmitted and interviewPrepsDone, which no other
\* function writes.  A description is the sequence of its characters.

\* s.includes(sub)
includesText(s, sub) ==
    \E i \in 0..(Len(s) - Len(sub)) : SubSeq(s, i + 1, i + Len(sub)) = sub

\* "Apply to Acme", "LC daily", "mock interview", "leetcode", "welcome call", "gym"
Descriptions ==
    {<<"A", "p", "p", "l", "y", " ", "t", "o", " ", "A", "c", "m", "e">>,
     <<"L", "C", " ", "d", "a", "i", "l", "y">>,
     <<"m", "o", "c", "k", " ", "i", "n", "t", "e", "r", "v", "i", "e", "w">>,
     <<"l", "e", "e", "t", "c", "o", "d", "e">>,
     <<"w", "e", "l", "c", "o", "m", "e", " ", "c", "a", "l", "l">>,
     <<"g", "y", "m">>}

\* task.description.toLowerCase().includes('apply')
mentionsApply(task) ==
    includesText(toLowerCase(task.description), <<"a", "p", "p", "l", "y">>)

\* ...includes('interview') || ...includes('lc') || ...includes('leetcode')
mentionsPrep(task) ==
    LET d == toLowerCase(task.description)
    IN \/ includesText(d, <<"i", "n", "t", "e", "r", "v", "i", "e", "w">>)
       \/ includesText(d, <<"l", "c">>)
       \/ includesText(d, <<"l", "e", "e", "t", "c", "o", "d", "e">>)

\* The updates completeTask passes to updateUser for the two statistics.
completeStats(user, task) ==
    [applicationsSubmitted |->
        IF task.category = "internship" /\ mentionsApply(task)
        THEN user.applicationsSubmitted + 1 ELSE user.applicationsSubmitted,
     interviewPrepsDone |->
        IF task.category = "internship" /\ mentionsPrep(task)
        THEN user.interviewPrepsDone + 1 ELSE user.interviewPrepsDone]

\* completeTask on an incomplete task, from getUser to the user updateUser saves.
completeTaskUser(user, task) ==
    Merge(user, Merge(completeUpdates(user, task), completeStats(user, task)))

\* uncompleteTask on a completed task: its updates name the point counters only.
uncompleteTaskUser(user, task) == Merge(user, uncompleteUpdates(user, task))

\* Users with and without earlier points, applications and preparations.
StatsUsers ==
    {Merge(defaultUser,
           [todayPoints |-> p, weeklyPoints |-> p, seasonPoints |-> p,
            lifetimePoints |-> p, applicationsSubmitted |-> a,
            interviewPrepsDone |-> i]) : p \in {0, 5}, a \in {0, 1}, i \in {0, 2}}

StatsTasks ==
    {[id |-> 11, points |-> 3, category |-> c, description |-> d,
      completed |-> FALSE, completedAt |-> NullDate] :
        c \in {"internship", "misc"}, d \in Descriptions}

StatsInit ==
    /\ MonitorOff
    /\ DatabaseOff
    /\ args \in {<<[user |-> u, task |-> t]>> : u \in StatsUsers, t \in StatsTasks}
    /\ result = <<>>

\* completeTask(userId, today, task.id) runs alone, from call to return.
CompleteStats ==
    /\ Len(result) = 0
    /\ result' = <<completeTaskUser(args[1].user, args[1].task)>>
    /\ UNCHANGED <<args, users, tasks, teams, today, parsed, proc, ret, calls, hist,
                   tally, vars, avars>>

\* uncompleteTask(userId, today, task.id) runs alone after it.
UncompleteStats ==
    /\ Len(result) = 1
    /\ result' = Append(result, uncompleteTaskUser(result[1], args[1].task))
    /\ UNCHANGED <<args, users, tasks, teams, today, parsed, proc, ret, calls, hist,
                   tally, vars, avars>>

StatsNext == CompleteStats \/ UncompleteStats

StatsSpec == StatsInit /\ [][StatsNext]_lvars

----------------------------------------------------------------------------
\* parseTasksWithLLM on answers long enough for the scaling to 50 points.

\* Most tasks in such an answer.
MaxAnswer == 4

\* The tasks of ApiTasks and one of a category with multiplier 1.0.
AnswerTasks ==
    ApiTasks \cup {[description |-> << <<"study">> >>, category |-> "skill",
                    difficulty |-> 6]}

\* parsedTasks.map(...): the tasks before the scaling.
convertTasks(list) == [i \in 1..Len(list) |-> convertTask(list[i], i - 1)]

AnswerInit ==
    /\ MonitorOff
    /\ DatabaseOff
    /\ args \in {<<[text |-> <<[prefix |-> "", words |-> <<"apply", "7">>]>>,
                    outcome |-> "array", list |-> l]>> :
                    l \in SeqsUpTo(AnswerTasks, MaxAnswer)}
    /\ result = <<>>

AnswerNext == ParseTasks

AnswerSpec == AnswerInit /\ [][AnswerNext]_lvars

----------------------------------------------------------------------------
\* Polls that have started and not yet returned.
InFlight == {p \in Polls : poll[p].pc # "idle"}

SeenSet == Range(heap[lastKnownListings])

NoDuplicates(s) == \A i, j \in 1..Len(s) : i # j => s[i] # s[j]

\* The step is poll p's fetch resolving with a document.
Fetched(p) ==
    /\ poll[p].pc = "fetch"
    /\ poll'[p].pc # "fetch"
    /\ ev' \notin {"fetchFailed", "restart"}

\* The step is one of poll p's own.
Moved(p) == poll'[p] # poll[p] /\ ev' # "restart"

\* C1: at most one checkForUpdates run is in flight at any time.
C1_OnePollInFlight == Cardinality(InFlight) <= 1

\* C2: a new listing is delivered once in total, not once per poll: no id is
\* among the deliveries of both a scheduled poll and a /check poll racing it.
C2_NotifiedOnceInTotal ==
    mon = "polling" => Range(poll["sched"].out) \cap Range(poll["check"].out) = {}

\* C3: a poll whose fetch resolves while isInitialized is false adds the id
\* of every parsed listing to the seen set, delivers nothing, sets
\* isInitialized when it returns, and what it writes, when the write
\* succeeds, contains every parsed id.
C3_FirstPollBaseline ==
    [][\A p \in Polls :
        /\ (Fetched(p) /\ ~isInitialized) =>
              /\ Range(heap'[lastKnownListings']) = SeenSet \cup Range(doc)
              /\ poll'[p].mode = "init"
              /\ poll'[p].cur = doc
        /\ (poll[p].mode = "init" /\ Moved(p)) =>
              /\ poll'[p].out = <<>>
              /\ poll'[p].pc \in {"write", "idle"}
              /\ poll'[p].pc = "idle" => isInitialized'
              /\ ev' = "saved" =>
                    /\ file'.st = "ok"
                    /\ Range(poll[p].cur) \subseteq Range(file'.listings)
      ]_vars

C3_Witness ==
    /\ ev = "saved"
    /\ isInitialized
    /\ mon = "polling"
    /\ Len(doc) = MaxDocLen
    /\ NoDuplicates(doc)
    /\ heap[lastKnownListings] = doc
    /\ file = JsonFile(doc)

\* C4: a poll whose fetch resolves in Steady state hands to sendNewListings
\* exactly the parsed listings whose id is not in the seen set, in parse
\* order; they are sent one by one in that order and then their ids are added
\* to the seen set. With no new id the poll returns at once and the seen set
\* and the file stay as they are.
C4_SteadyPollNotifiesNew ==
    [][\A p \in Polls :
        /\ (Fetched(p) /\ isInitialized) =>
              LET fresh == SelectSeq(doc, LAMBDA id : id \notin SeenSet) IN
              IF fresh = <<>>
              THEN /\ poll'[p].pc = "idle"
                   /\ ev' = "nothingNew"
                   /\ UNCHANGED <<heap, lastKnownListings, file>>
              ELSE /\ poll'[p].pc = "chanFetch"
                   /\ poll'[p].new = fresh
                   /\ poll'[p].out = <<>>
                   /\ UNCHANGED <<heap, lastKnownListings, file>>
        /\ (poll[p].pc = "send" /\ Moved(p)) =>
              /\ poll'[p].out \in {poll[p].out,
                                   Append(poll[p].out, poll[p].new[poll[p].i])}
              /\ IF poll[p].i < Len(poll[p].new)
                 THEN /\ poll'[p].pc = "send"
                      /\ poll'[p].i = poll[p].i + 1
                      /\ UNCHANGED <<heap, file>>
                 ELSE /\ poll'[p].pc = "mkdir"
                      /\ Range(heap'[lastKnownListings']) = SeenSet \cup Range(poll[p].new)
      ]_vars

C4_Witness ==
    \E p \in Polls :
        /\ poll[p].pc = "mkdir"
        /\ poll[p].mode = "steady"
        /\ Len(poll[p].out) = 2
        /\ poll[p].out[1] # poll[p].out[2]
        /\ poll[p].out = doc
        /\ Range(poll[p].out) \subseteq SeenSet

\* C5: within one process the in-memory seen set never shrinks.
C5_SeenSetNeverShrinks ==
    [][ev' # "restart" => SeenSet \subseteq Range(heap'[lastKnownListings'])]_vars

\* C6: a poll whose fetch fails leaves the seen set, the file and
\* isInitialized as they were, delivers nothing and returns, so that the next
\* trigger starts an ordinary poll.
C6_FetchFailureChangesNothing ==
    [][ev' = "fetchFailed" =>
        /\ UNCHANGED <<heap, lastKnownListings, file, isInitialized>>
        /\ \E p \in Polls :
              /\ poll[p].pc = "fetch"
              /\ poll'[p] = IdlePoll
              /\ \A q \in Polls \ {p} : poll'[q] = poll[q]
      ]_vars

C6_Witness ==
    /\ ev = "fetchFailed"
    /\ ~isInitialized
    /\ mon = "polling"
    /\ InFlight = {}

C8_OneNotificationPerId == \A p \in Polls : NoDuplicates(poll[p].out)

----------------------------------------------------------------------------
\* Claims about the database module

\* A store: both files.
Store(us, ts) == [users |-> us, tasks |-> ts]

\* completeTask(o.u, o.d, o.t) run from its call to its return with no other
\* call in flight: the store it leaves.
completeTaskAlone(st, o) ==
    LET i == IF HasBucket(st.tasks, o.u, o.d) THEN Find(st.tasks[o.u][o.d], o.t) ELSE 0
    IN IF i = 0 \/ st.tasks[o.u][o.d][i].completed THEN st
       ELSE LET marked == MarkTask(st.tasks, o.u, o.d, i, TRUE, o.d)
                us == IF o.u \in DOMAIN st.users THEN st.users
                      ELSE PutUser(st.users, o.u, defaultUser)
                upd == completeUpdates(us[o.u], marked[o.u][o.d][i])
            IN Store(PutUser(us, o.u, Merge(us[o.u], upd)), marked)

\* uncompleteTask(o.u, o.d, o.t) run alone.
uncompleteTaskAlone(st, o) ==
    LET i == IF HasBucket(st.tasks, o.u, o.d) THEN Find(st.tasks[o.u][o.d], o.t) ELSE 0
    IN IF i = 0 \/ ~st.tasks[o.u][o.d][i].completed THEN st
       ELSE LET marked == MarkTask(st.tasks, o.u, o.d, i, FALSE, NullDate)
                us == IF o.u \in DOMAIN st.users THEN st.users
                      ELSE PutUser(st.users, o.u, defaultUser)
                upd == uncompleteUpdates(us[o.u], marked[o.u][o.d][i])
            IN Store(PutUser(us, o.u, Merge(us[o.u], upd)), marked)

ToggleAlone(st, o) ==
    IF o.op = "completeTask" THEN completeTaskAlone(st, o) ELSE uncompleteTaskAlone(st, o)

\* The completed flags of a bucket.
Flags(ts, u, d) ==
    IF HasBucket(ts, u, d) THEN [i \in 1..Len(ts[u][d]) |-> ts[u][d][i].completed]
    ELSE <<>>

\* todayPoints, weeklyPoints, seasonPoints, lifetimePoints of a user; a user
\* without a record has none.
Counters(us, u) ==
    IF u \in DOMAIN us
    THEN <<us[u].todayPoints, us[u].weeklyPoints, us[u].seasonPoints,
           us[u].lifetimePoints>>
    ELSE <<0, 0, 0, 0>>

\* What C11 compares: the flags of the bucket and the four counters.
Outcome(st, u, d) == <<Flags(st.tasks, u, d), Counters(st.users, u)>>

\* C11: when two toggles of one user overlapped and nothing else was in
\* flight with them, the flags of the bucket and the user's four counters,
\* once both have returned, are those of the two calls run one after the
\* other in one of the two orders.
C11_NoLostUpdate ==
    [][(hist # NoHist /\ Len(hist.ops) = 2 /\ \A p \in Procs : proc'[p].pc = "idle")
        => LET st == Store(hist.users, hist.tasks)
               a == hist.ops[1]
               b == hist.ops[2]
           IN Outcome(Store(users', tasks'), a.u, a.d) \in
                {Outcome(ToggleAlone(ToggleAlone(st, a), b), a.u, a.d),
                 Outcome(ToggleAlone(ToggleAlone(st, b), a), a.u, a.d)}]_lvars

\* A toggle run with no other call in flight leaves what ToggleAlone says.
AloneIsAlone ==
    [][(ret'.op \in Toggles /\ hist # NoHist /\ Len(hist.ops) = 1)
        => Store(users', tasks') = ToggleAlone(Store(hist.users, hist.tasks), hist.ops[1])]_lvars

\* The task the row of toggles in hist is about, as the store had it when
\* the row began: its index in the bucket, 0 when the bucket has no such task.
RowIndex ==
    LET o == hist.ops[1]
    IN IF HasBucket(hist.tasks, o.u, o.d) THEN Find(hist.tasks[o.u][o.d], o.t) ELSE 0

RowTask == hist.tasks[hist.ops[1].u][hist.ops[1].d][RowIndex]

\* The row is completeTask, uncompleteTask, completeTask, ... and ends with
\* an uncompleteTask.
Pairs(ops) ==
    /\ Len(ops) % 2 = 0
    /\ \A i \in 1..Len(ops) :
          ops[i].op = IF i % 2 = 1 THEN "completeTask" ELSE "uncompleteTask"

\* C12: with calls running one by one, when completeTask(t) and
\* uncompleteTask(t) on a task that was incomplete have run in turn, once or
\* several times over, with no other call in between, the user's todayPoints,
\* weeklyPoints, seasonPoints and lifetimePoints are what they were before
\* the first completeTask.
C12_ToggleInvariance ==
    [][(ret'.op = "uncompleteTask" /\ hist # NoHist /\ Pairs(hist.ops)
            /\ RowIndex # 0 /\ ~RowTask.completed)
        => /\ ~ret'.null
           /\ Counters(users', ret'.u) = Counters(hist.users, ret'.u)]_lvars

\* Two pairs have run on a task of a user whose counters were not zero.
C12_Witness ==
    /\ ret.op = "uncompleteTask"
    /\ ~ret.null
    /\ hist # NoHist
    /\ Pairs(hist.ops)
    /\ Len(hist.ops) >= 4
    /\ RowIndex # 0
    /\ ~RowTask.completed
    /\ lifetimeOf(hist.users, ret.u) > 0
    /\ Counters(users, ret.u) = Counters(hist.users, ret.u)

AllCompletes(ops) == \A i \in 1..Len(ops) : ops[i].op = "completeTask"

\* The four counters, each raised by n.
Raised(c, n) == <<c[1] + n, c[2] + n, c[3] + n, c[4] + n>>

\* C13: with calls running one by one, a completeTask on a task that is
\* already completed changes neither store and returns the task as stored;
\* after one or more completeTask calls in a row on a task that was
\* incomplete, the four counters are up by the task's points once and the
\* call returns the completed task.
C13_CompleteIdempotent ==
    [][(ret'.op = "completeTask" /\ hist # NoHist /\ AllCompletes(hist.ops)
            /\ RowIndex # 0)
        => /\ ~ret'.null
           /\ IF RowTask.completed
              THEN /\ users' = hist.users
                   /\ tasks' = hist.tasks
                   /\ ret'.task = <<RowTask>>
              ELSE /\ Counters(users', ret'.u) =
                        Raised(Counters(hist.users, ret'.u), RowTask.points)
                   /\ tasks' = MarkTask(hist.tasks, ret'.u, ret'.d, RowIndex, TRUE,
                                        tasks'[ret'.u][ret'.d][RowIndex].completedAt)
                   /\ ret'.task = <<tasks'[ret'.u][ret'.d][RowIndex]>>
                   /\ ret'.task[1].completed]_lvars

\* The third completeTask in a row on a task that was incomplete has returned.
C13_Witness ==
    /\ ret.op = "completeTask"
    /\ ~ret.null
    /\ hist # NoHist
    /\ AllCompletes(hist.ops)
    /\ Len(hist.ops) >= 3
    /\ RowIndex # 0
    /\ ~RowTask.completed
    /\ Counters(users, ret.u) = Raised(Counters(hist.users, ret.u), RowTask.points)

\* The step is one of the call in slot p.
Stepped(p) == proc[p].pc # "idle" /\ proc'[p] # proc[p]

\* C14: whatever else is in flight, a completeTask changes the user's
\* persisted record in two ways only: getUser writes the record of a new user,
\* with every counter 0, and updateUser writes, in one write, each of
\* todayPoints, weeklyPoints, seasonPoints and lifetimePoints as the value
\* getUser returned plus the task's points. And no persisted record has
\* seasonPoints different from lifetimePoints, or todayPoints or weeklyPoints
\* above them.
C14_FourCountersTogether ==
    [][/\ \A p \in Procs :
            (Stepped(p) /\ proc[p].op = "completeTask" /\ users' # users)
            => LET u == proc[p].u
               IN IF proc[p].pc = "updSave"
                  THEN Counters(users', u) =
                          Raised(Counters(<<proc[p].user[1]>>, 1), proc[p].task[1].points)
                  ELSE /\ proc[p].pc \in {"getUserSave", "updGetUserSave"}
                       /\ Counters(users', u) = <<0, 0, 0, 0>>
       /\ \A u \in DOMAIN users' :
            /\ users'[u].seasonPoints = users'[u].lifetimePoints
            /\ users'[u].todayPoints <= users'[u].lifetimePoints
            /\ users'[u].weeklyPoints <= users'[u].lifetimePoints]_lvars

\* A completeTask has returned after crediting a user whose counters were
\* not all equal.
C14_Witness ==
    /\ ret.op = "completeTask"
    /\ ~ret.null
    /\ ret.u \in DOMAIN users
    /\ users[ret.u].weeklyPoints = ret.task[1].points
    /\ users[ret.u].lifetimePoints > ret.task[1].points

\* C15: in every state reached by setUserTasks, completeTask,
\* uncompleteTask, getUser, resetWeeklyPoints and the daily recap run one by
\* one, every persisted user has todayPoints, weeklyPoints, seasonPoints,
\* lifetimePoints and internshipPoints >= 0.
C15_CountersNonNegative ==
    \A u \in DOMAIN users :
        /\ users[u].todayPoints >= 0
        /\ users[u].weeklyPoints >= 0
        /\ users[u].seasonPoints >= 0
        /\ users[u].lifetimePoints >= 0
        /\ users[u].internshipPoints >= 0

\* An uncompleteTask has returned after a reset had zeroed a counter that
\* held the task's points: the counter is 0 and the others are not.
C15_Witness ==
    /\ ret.op = "uncompleteTask"
    /\ ~ret.null
    /\ ret.u \in DOMAIN users
    /\ users[ret.u].weeklyPoints = 0
    /\ users[ret.u].lifetimePoints > 0
    /\ hist # NoHist
    /\ users[ret.u].lifetimePoints = lifetimeOf(hist.users, ret.u) - ret.task[1].points
    /\ hist.users[ret.u].weeklyPoints < ret.task[1].points

\* The toggle in slot p addresses a bucket of tasks.json that has no task of
\* its id, or is an uncompleteTask of a task stored as not completed.
Misses(p) ==
    LET u == proc[p].u
        d == proc[p].d
        i == IF HasBucket(tasks, u, d) THEN Find(tasks[u][d], proc[p].t) ELSE 0
    IN i = 0 \/ (proc[p].op = "uncompleteTask" /\ ~tasks[u][d][i].completed)

\* C16: whatever else is in flight, a completeTask or uncompleteTask whose
\* loadTasks finds no task of the id in the bucket, and an uncompleteTask that
\* finds the task not completed, returns null at once: the step changes
\* neither tasks.json nor users.json and the call is over.
C16_MissReturnsNull ==
    [][\A p \in Procs :
          (Stepped(p) /\ proc[p].pc = "loadTasks" /\ proc[p].op \in Toggles /\ Misses(p))
          => /\ ret'.op = proc[p].op
             /\ ret'.null
             /\ proc'[p] = IdleProc
             /\ tasks' = tasks
             /\ users' = users]_lvars

\* An uncompleteTask of a stored, not completed task of a user with points
\* has returned null.
C16_Witness ==
    /\ ret.op = "uncompleteTask"
    /\ ret.null
    /\ HasBucket(tasks, ret.u, ret.d)
    /\ Find(tasks[ret.u][ret.d], ret.t) # 0
    /\ ~tasks[ret.u][ret.d][Find(tasks[ret.u][ret.d], ret.t)].completed
    /\ lifetimeOf(users, ret.u) > 0

\* The teams whose members list holds u.
TeamsOf(u) == {t \in DOMAIN teams : Includes(teams[t].members, u)}

\* C17: after any sequence of ?team join and ?team leave commands every user
\* id is in the members list of at most one team.
C17_AtMostOneTeam == \A u \in LUsers : Cardinality(TeamsOf(u)) <= 1

\* The record getUser returns for u from the store us.
RecordOf(us, u) == IF u \in DOMAIN us THEN us[u] ELSE defaultUser

\* C18: when updateStreak(u, pointsEarned) returns, with pointsEarned >= 10 the
\* streak and the last-active date are as before if the last-active date was
\* today; otherwise the last-active date is today and the streak is one more
\* than before if the last-active date was the day before today, and 1 if it
\* was earlier or null. With pointsEarned < 10 both are as before.
C18_StreakTable ==
    [][ret'.op = "updateStreak" =>
        LET u == ret'.u
            before == RecordOf(hist.users, u)
            last == before.lastActiveDate
        IN /\ u \in DOMAIN users'
           /\ IF proc["x"].pts < 10 \/ last = today
              THEN /\ users'[u].streakDays = before.streakDays
                   /\ users'[u].lastActiveDate = last
              ELSE /\ users'[u].lastActiveDate = today
                   /\ users'[u].streakDays =
                        IF last # NullDate /\ last = today - 1
                        THEN before.streakDays + 1 ELSE 1]_lvars

\* updateStreak has returned after taking a streak of 1 that ended yesterday to 2.
C18_Witness ==
    /\ ret.op = "updateStreak"
    /\ hist.users # EmptyObj
    /\ RecordOf(hist.users, ret.u).lastActiveDate = today - 1
    /\ RecordOf(hist.users, ret.u).streakDays = 1
    /\ users[ret.u].streakDays = 2
    /\ users[ret.u].lastActiveDate = today

\* C19: when a daily recap returns, and no midnight has passed without one,
\* every user's streakDays is the number of consecutive days, ending with the
\* day just recapped, on which the user earned at least 10 points.
C19_StreakIsRun ==
    [][(ret'.op = "runDailyRecap" /\ ~tally'.missed)
        => \A u \in DOMAIN users' : users'[u].streakDays = tally'.run[u]]_lvars

\* C20: whatever else is in flight, the write of setUserTasks(u, d, list)
\* leaves tasks.json as it was but for the bucket (u, d), which is the given
\* list, and no step of the call changes users.json.
C20_ReplacesOneBucket ==
    [][\A p \in Procs :
          (Stepped(p) /\ proc[p].op = "setUserTasks")
          => /\ users' = users
             /\ IF proc[p].pc = "saveTasks"
                THEN tasks' = PutBucket(tasks, proc[p].u, proc[p].d,
                                        proc[p].tbuf[proc[p].u][proc[p].d])
                ELSE tasks' = tasks]_lvars

\* C21: whatever else is in flight, the write of resetWeeklyPoints leaves
\* users.json with the users it had, each with weeklyPoints 0 and every
\* other field as it was, and the call's other step changes nothing.
C21_ResetsWeeklyOnly ==
    [][\A p \in Procs :
          (Stepped(p) /\ proc[p].op = "resetWeeklyPoints")
          => IF proc[p].pc = "resetSave"
             THEN /\ DOMAIN users' = DOMAIN users
                  /\ \A u \in DOMAIN users :
                        /\ users'[u].weeklyPoints = 0
                        /\ \A f \in DOMAIN users[u] \ {"weeklyPoints"} :
                                users'[u][f] = users[u][f]
             ELSE users' = users]_lvars

\* The metric a leaderboard of the given type shows.
MetricOf(type) ==
    CASE type = "week" -> "weeklyPoints"
      [] type = "season" -> "seasonPoints"
      [] type = "internship" -> "internshipPoints"
      [] type = "streak" -> "streakDays"
      [] OTHER -> "todayPoints"

\* x ranks before y: a larger value, or an equal one and earlier in the store.
RanksBefore(x, y, m) == x[m] > y[m] \/ (x[m] = y[m] /\ x.userId < y.userId)

\* C22: the users getLeaderboard returns are ranked (non-increasing in the
\* metric, equal values in the store's order), each has a value above 0, and
\* they are the first `limit` of the users with a value above 0 in that ranking.
C22_LeaderboardRanked ==
    result # <<>> =>
        LET r == result[1].users
            a == args[1].users
            m == MetricOf(args[1].type)
            positive == {i \in 1..Len(a) : a[i][m] > 0}
            limit == args[1].limit
        IN /\ \A i \in 1..Len(r) : \E j \in positive : r[i] = a[j]
           /\ \A i, j \in 1..Len(r) : i < j => RanksBefore(r[i], r[j], m)
           /\ Len(r) = IF Cardinality(positive) < limit THEN Cardinality(positive) ELSE limit
           /\ \A j \in positive :
                (\A i \in 1..Len(r) : r[i] # a[j])
                => \A i \in 1..Len(r) : RanksBefore(r[i], a[j], m)

\* A leaderboard of two users with equal values was cut off before a third.
C22_Witness ==
    /\ result # <<>>
    /\ Len(result[1].users) = 2
    /\ Len(args[1].users) = 3
    /\ args[1].limit = 2
    /\ result[1].users[1][result[1].sortKey] = result[1].users[2][result[1].sortKey]
    /\ \A i \in 1..3 : args[1].users[i][result[1].sortKey] > 0

\* The sum over a team's members, at the time of the query, of the metric.
RECURSIVE MemberSum(_, _, _)
MemberSum(members, us, m) ==
    IF members = <<>> THEN 0
    ELSE (IF Head(members) \in DOMAIN us THEN us[Head(members)][m] ELSE 0)
         + MemberSum(Tail(members), us, m)

\* C23: for each of today, week and season, getTeamLeaderboard keeps the teams
\* whose members' todayPoints / weeklyPoints / seasonPoints sum to more than 0
\* (the first `limit` of them) and returns them in non-increasing order of
\* that sum.
C23_TeamsRankedByMemberSum ==
    result # <<>> =>
        LET r == result[1].teams
            t == args[1].teams
            m == MetricOf(args[1].type)
            sum(team) == MemberSum(team.members, args[1].users, m)
            positive == {i \in 1..Len(t) : sum(t[i]) > 0}
            limit == args[1].limit
        IN /\ \A i \in 1..Len(r) : r[i].id \in positive
           /\ \A i, j \in 1..Len(r) : i < j => sum(r[i]) >= sum(r[j])
           /\ Len(r) = IF Cardinality(positive) < limit THEN Cardinality(positive) ELSE limit

\* C24: in every step, under any interleaving of the calls, a user that has a
\* record keeps one, and a record that appears has every point counter and
\* the streak 0 and lastActiveDate and teamId null.
C24_CreatedZeroNeverDeleted ==
    [][/\ DOMAIN users \subseteq DOMAIN users'
       /\ \A u \in DOMAIN users' \ DOMAIN users :
            /\ Counters(users', u) = <<0, 0, 0, 0>>
            /\ users'[u].internshipPoints = 0
            /\ users'[u].streakDays = 0
            /\ users'[u].lastActiveDate = NullDate
            /\ users'[u].teamId = Null]_lvars

\* C25: when the poll of a /check command ends because its fetch failed, the
\* requesting user is sent the failure message.
C25_FailedCheckReportsFailure ==
    [][(poll["check"].pc = "fetch" /\ Moved("check") /\ ev' = "fetchFailed")
        => editReply(ev') = ErrorReply]_vars

\* The request ended in a way that leaves parseTasksWithLLM no answer to use.
ApiFailed == args[1].outcome \in {"noKey", "fetchRejects", "notOk", "bodyNotJson",
                                  "contentNotJson"}

\* C26: for a task text that is not blank, when no API key is set, the HTTP
\* call is rejected, the status is not 2xx or the body or the content is not
\* valid JSON, parseTasks returns what parseTasksHeuristic returns for the text.
C26_FallsBackToHeuristic ==
    (result # <<>> /\ ~BlankText(args[1].text) /\ ApiFailed)
        => result[1] = parseTasksHeuristic(args[1].text)

\* parseTasks has returned two heuristic tasks after the API answered with a
\* status that is not 2xx.
C26_Witness ==
    /\ result # <<>>
    /\ args[1].outcome = "notOk"
    /\ Len(result[1]) = 2
    /\ result[1][1].category = "internship"
    /\ result[1][1].difficulty = 9
    /\ result[1][1].points = 15
    /\ result[1][2].category = "health"

\* C27: under every interleaving of clicks, each (user, listing) pair that
\* was told "recorded" has the user id in the listing's entry of
\* applications.json, and no entry holds a user id twice.
C27_RecordedStaysRecorded ==
    /\ \A pair \in replied : hasApplied(applications, pair[1], pair[2])
    /\ \A l \in DOMAIN applications : NoDuplicates(applications[l])

----------------------------------------------------------------------------
----------------------------------------------------------------------------
\* C28: parseInternshipListings emits a listing for a row if and only if the
\* row lies under a known category heading, has five cells, has no lock sign
\* in company, role or application cell and has an Apply or Simplify link;
\* the other rows are skipped without changing what is emitted for the rest,
\* and the listings come in the order of the rows.
Emitted(heading, f) ==
    /\ \E k \in 1..Len(sectionPatterns) : heading = HeadingOf(sectionPatterns[k])
    /\ f.cells = 5
    /\ f.lockedAt = "nowhere"
    /\ f.app \in {"apply", "simplify", "both"}

ListingOfRow(heading, i, f) ==
    [company |-> <<Word("C", i)>>, role |-> <<Word("R", i)>>,
     location |-> <<Word("L", i)>>,
     applyLink |-> IF f.app = "simplify" THEN <<Word("s", i)>> ELSE <<Word("a", i)>>,
     age |-> <<Word("d", i)>>,
     category |-> CHOOSE c \in Range(sectionPatterns) : heading = HeadingOf(c)]

RECURSIVE ListingsOfRows(_, _, _)
ListingsOfRows(heading, rows, i) ==
    IF i > Len(rows) THEN <<>>
    ELSE (IF Emitted(heading, rows[i]) THEN <<ListingOfRow(heading, i, rows[i])>>
          ELSE <<>>) \o ListingsOfRows(heading, rows, i + 1)

C28_EmitsExactlyGoodRows ==
    result # <<>> => result[1] = ListingsOfRows(args[1].heading, args[1].rows, 1)

----------------------------------------------------------------------------
\* C30: once initialized, a poll adds to the seen set only the ids of
\* listings whose channel.send succeeded: a listing whose send failed, or
\* for which no channel was found, is not marked as seen.
C30_SeenOnlyAfterDelivery ==
    [][\A p \in Polls :
          (poll[p].pc \in {"chanFetch", "send"} /\ Moved(p))
              => \A id \in Range(heap'[lastKnownListings']) \ SeenSet :
                    \E q \in Polls : id \in Range(poll[q].out) \cup Range(poll'[q].out)]_vars

----------------------------------------------------------------------------
\* C31: a listing that is in the document when the process starts is never
\* notified by that process, however a /check poll interleaves with the
\* startup of the monitor.  Under StartSpec the document never changes, so
\* no poll ever delivers an id of the document.
C31_StartListingsNeverNotified ==
    \A p \in Polls : Range(poll[p].out) \cap Range(doc) = {}

----------------------------------------------------------------------------
\* C32: whatever else is in flight, a write of users.json made by
\* completeTask, uncompleteTask or getUser for one user (in getUser or in
\* updateUser) leaves the record of every other user as it was, so that the
\* other user's counters are those of that user's own calls.
C32_OtherUsersUntouched ==
    [][\A p \in Procs :
          (/\ proc[p].pc \in {"getUserSave", "updGetUserSave", "updSave"}
           /\ proc[p].op \in Toggles \cup {"getUser"}
           /\ proc'[p] # proc[p])
              => \A y \in LUsers \ {proc[p].u} :
                    /\ y \in DOMAIN users' <=> y \in DOMAIN users
                    /\ y \in DOMAIN users => users'[y] = users[y]]_lvars

----------------------------------------------------------------------------
\* C33: when two completeTask calls for the same incomplete task overlapped
\* (a ?done command and a number reaction), with nothing else in flight,
\* then once both have returned each of the user's four counters has grown
\* by the task's points exactly once.
C33_CreditedOnce ==
    [][(/\ hist # NoHist
        /\ Len(hist.ops) = 2
        /\ hist.ops[1] = hist.ops[2]
        /\ hist.ops[1].op = "completeTask"
        /\ RowIndex # 0
        /\ \A p \in Procs : proc'[p].pc = "idle")
        => (~RowTask.completed
              => \A k \in 1..4 :
                    Counters(users', hist.ops[1].u)[k]
                        = Counters(hist.users, hist.ops[1].u)[k] + RowTask.points)]_lvars

----------------------------------------------------------------------------
\* The points of the tasks of a list that are marked completed.
RECURSIVE CompletedPoints(_)
CompletedPoints(list) ==
    IF list = <<>> THEN 0
    ELSE (IF Head(list).completed THEN Head(list).points ELSE 0)
            + CompletedPoints(Tail(list))

TodayMatchesBucket(u) ==
    (IF u \in DOMAIN users THEN users[u].todayPoints ELSE 0)
        = (IF HasBucket(tasks, u, today) THEN CompletedPoints(tasks[u][today]) ELSE 0)

\* The buckets of the first day.
FirstDayBuckets == {u \in LUsers : HasBucket(tasks, u, 1)}

\* C34 as stated: with calls one by one and before the first midnight,
\* between calls every user's todayPoints is the sum of the points of the
\* completed tasks in the user's bucket of the day, whatever setUserTasks,
\* completeTask and uncompleteTask calls have run.
C34_TodayIsCompletedSum ==
    (today = 1 /\ AllIdle) => \A u \in LUsers : TodayMatchesBucket(u)

\* C34, amended: the same, as long as no setUserTasks has replaced a bucket
\* (every list parsed so far is the first bucket of a different user).
C34_TodayIsCompletedSumOfFirstList ==
    (today = 1 /\ AllIdle /\ Cardinality(FirstDayBuckets) = parsed)
        => \A u \in LUsers : TodayMatchesBucket(u)

\* u1 has completed both tasks of the list and taken one completion back.
C34_Witness ==
    /\ today = 1
    /\ AllIdle
    /\ Cardinality(FirstDayBuckets) = parsed
    /\ ret.op = "uncompleteTask"
    /\ ~ret.null
    /\ ret.u = "u1"
    /\ users["u1"].todayPoints = 12
    /\ CompletedPoints(tasks["u1"][1]) = 12

----------------------------------------------------------------------------
\* C35: completeTask followed by uncompleteTask on the same task leaves
\* applicationsSubmitted and interviewPrepsDone as they were before the pair.
C35_StatsRestored ==
    Len(result) = 2 =>
        /\ result[2].applicationsSubmitted = args[1].user.applicationsSubmitted
        /\ result[2].interviewPrepsDone = args[1].user.interviewPrepsDone

----------------------------------------------------------------------------
\* C36: after any sequence of ?team join and ?team leave commands, a user's
\* teamId is t exactly when the user is in the members list of team t.
C36_TeamIdMatchesMembers ==
    \A u \in LUsers : \A t \in DOMAIN teams :
        (u \in DOMAIN users /\ users[u].teamId = t) <=> Includes(teams[t].members, u)

----------------------------------------------------------------------------
\* C37: under every interleaving of a user's clicks on the "I Applied"
\* button of a listing, at most one "Application Recorded" confirmation is
\* sent to the channel for that user and listing.
C37_OneConfirmationPerPair ==
    \A u \in LUsers, l \in Listings : sent[u, l] <= 1

----------------------------------------------------------------------------
\* C38: when the converted tasks of an answer total more than 50 points, the
\* tasks parseTasksWithLLM returns total at most 50 points and each of them
\* has at least 1 point.
C38_ScaledToFifty ==
    (/\ result # <<>>
     /\ \A i \in 1..Len(args[1].list) : args[1].list[i].description # <<>>
     /\ SumPoints(convertTasks(args[1].list)) > 50)
        => /\ SumPoints(result[1]) <= 50
           /\ \A i \in 1..Len(result[1]) : result[1][i].points >= 1
====
